---- MODULE Spec2Model ----
(***************************************************************************)
(* Model of src/app.py (Sanctra API): the tuning functions                 *)
(* (calculate_fundamental_frequency, calculate_binaural_delta,             *)
(* calculate_isochronic_rate), the two synthesis routines                  *)
(* (generate_synthetic_ir, generate_binaural_isochronic_tone) and the      *)
(* process-wide numpy generator they draw from, the five endpoints and the *)
(* two catalog tables (SpecApi); and the analytic core, which src/ does    *)
(* not hold, after its description (SpecCore).  SpecCatalog calls the      *)
(* synthesis with or without sites in the catalog, SpecRooms calls the     *)
(* tone synthesis for rooms of every size, SpecLive adds a second thread   *)
(* and fairness.                                                           *)
(*                                                                         *)
(* Number representation.                                                  *)
(*  - Scalars of the tuning functions are exact rationals [n, d], d > 0,   *)
(*    kept in lowest terms (Python floats, without their rounding).        *)
(*  - Lengths are integers in millimetres, times in microseconds,          *)
(*    durations (rt60, length_sec) in milliseconds.                        *)
(*  - Samples are IEEE-like values [k, v]: k = "fin" with v in thousandths *)
(*    (1.0 is 1000), or k in {"nan", "pinf", "ninf"} with v = 0.           *)
(***************************************************************************)
EXTENDS Integers, Sequences, FiniteSets, TLC

\* ------------------------------------------------------------------------
\* Integer helpers

Abs(x) == IF x < 0 THEN -x ELSE x

Sign(x) == IF x < 0 THEN -1 ELSE IF x > 0 THEN 1 ELSE 0

\* Python's int(): truncation toward zero of a / b, b > 0.
Trunc(a, b) == IF a >= 0 THEN a \div b ELSE -((-a) \div b)

RECURSIVE Gcd(_, _)
Gcd(a, b) == IF b = 0 THEN a ELSE Gcd(b, a % b)

\* ------------------------------------------------------------------------
\* Exact rationals

Rat(n, d) ==
  LET g == Gcd(Abs(n), Abs(d))
      s == IF d < 0 THEN -1 ELSE 1
  IN  [n |-> s * (n \div g), d |-> s * (d \div g)]

RInt(k) == [n |-> k, d |-> 1]

RMul(a, b) ==
  LET x == Rat(a.n, b.d)
      y == Rat(b.n, a.d)
  IN  [n |-> x.n * y.n, d |-> x.d * y.d]

\* a / b for b # 0
RDiv(a, b) == RMul(a, Rat(b.d, b.n))

RAdd(a, b) == Rat(a.n * b.d + b.n * a.d, a.d * b.d)

RLess(a, b) == a.n * b.d < b.n * a.d

RLeq(a, b) == a.n * b.d <= b.n * a.d

\* Python's max(a, b) and min(a, b): the first argument on a tie.
RMax(a, b) == IF RLess(a, b) THEN b ELSE a

RMin(a, b) == IF RLess(b, a) THEN b ELSE a

\* ------------------------------------------------------------------------
\* Results of a call: a returned value or a raised exception

Ok(v) == [ok |-> TRUE, val |-> v, err |-> "none"]

Raise(e) == [ok |-> FALSE, val |-> <<>>, err |-> e]

\* ------------------------------------------------------------------------
\* Program constants

\* c = 343, the speed of sound in m/s
SpeedOfSound == 343

\* phi = 1.618 (the default argument of every synthesis function), in
\* thousandths
PhiMilli == 1618

Phi == Rat(PhiMilli, 1000)

\* ------------------------------------------------------------------------
\* Tuning functions.  dims is a sequence of three lengths in millimetres.

\* max(Lx, Ly, Lz)
Max3(dims) ==
  LET m12 == IF dims[2] > dims[1] THEN dims[2] ELSE dims[1]
  IN  IF dims[3] > m12 THEN dims[3] ELSE m12

Min3(dims) ==
  LET m12 == IF dims[2] < dims[1] THEN dims[2] ELSE dims[1]
  IN  IF dims[3] < m12 THEN dims[3] ELSE m12

\* sorted(dims, reverse=True)
SortedDesc(dims) ==
  <<Max3(dims), dims[1] + dims[2] + dims[3] - Max3(dims) - Min3(dims), Min3(dims)>>

\* A mutant of ListAfterSorted: dims.sort(reverse=True) sorts the list in place.
MutSortInPlace(dims) == SortedDesc(dims)

\* The list dims after sorted(dims, reverse=True): sorted() builds a new list
\* and leaves its argument as it was
ListAfterSorted(dims) == dims

\* 1 / x for a length x in millimetres (# 0), per metre
Reciprocal(mm) == Rat(1000, mm)

\* A mutant of calculate_fundamental_frequency: the clamp is left out.
MutFundamentalNoClamp(dims) ==
  IF Max3(dims) = 0 THEN Raise("ZeroDivisionError")
  ELSE Ok(RMul(RMul(Rat(SpeedOfSound, 2), Reciprocal(Max3(dims))), Phi))

calculate_fundamental_frequency(dims) ==
  IF Max3(dims) = 0 THEN Raise("ZeroDivisionError")
  ELSE LET f == RMul(Rat(SpeedOfSound, 2), Reciprocal(Max3(dims)))
           f_adjusted == RMul(f, Phi)
       IN  Ok(RMax(RInt(20), RMin(RInt(100), f_adjusted)))

\* A mutant of calculate_binaural_delta: multiplies by phi instead of dividing.
MutDeltaTimesPhi(base_freq) ==
  RMax(RInt(2), RMin(RInt(8), RMul(base_freq, Phi)))

calculate_binaural_delta(base_freq) ==
  LET delta == RDiv(base_freq, Phi)
  IN  RMax(RInt(2), RMin(RInt(8), delta))

\* A mutant of calculate_isochronic_rate: takes sorted_dims[0], the largest
\* dimension, instead of the second one.
MutRateOfLargest(dims) ==
  LET sorted_dims == SortedDesc(dims)
      second_dim == sorted_dims[1]
  IN  IF second_dim = 0 THEN Raise("ZeroDivisionError")
      ELSE LET f == RMul(Rat(SpeedOfSound, 2), Reciprocal(second_dim))
           IN  Ok(RMax(RInt(2), RMin(RInt(10), f)))

calculate_isochronic_rate(dims) ==
  LET sorted_dims == SortedDesc(dims)
      second_dim == sorted_dims[2]
  IN  IF second_dim = 0 THEN Raise("ZeroDivisionError")
      ELSE LET f == RMul(Rat(SpeedOfSound, 2), Reciprocal(second_dim))
           IN  Ok(RMax(RInt(2), RMin(RInt(10), f)))

\* ------------------------------------------------------------------------
\* IEEE-like sample values (numpy float64): finite values in thousandths,
\* NaN and the two infinities

Fin(v) == [k |-> "fin", v |-> v]

NaN == [k |-> "nan", v |-> 0]

PInf == [k |-> "pinf", v |-> 0]

NInf == [k |-> "ninf", v |-> 0]

IsFin(x) == x.k = "fin"

IsNaN(x) == x.k = "nan"

\* -1, 0, 1 for a value that is not NaN
FSign(x) == IF x.k = "pinf" THEN 1 ELSE IF x.k = "ninf" THEN -1 ELSE Sign(x.v)

InfOf(s) == IF s > 0 THEN PInf ELSE NInf

\* |a| * |b| / 1000 for naturals, the larger factor split so that no
\* intermediate product leaves 32 bits
MulNat(a, b) ==
  LET hi == IF a >= b THEN a ELSE b
      lo == IF a >= b THEN b ELSE a
  IN  (hi \div 1000) * lo + ((hi % 1000) * lo) \div 1000

MulMilli(a, b) == Sign(a) * Sign(b) * MulNat(Abs(a), Abs(b))

\* |a| * 1000 / |b| for naturals, b > 0
DivNat(a, b) ==
  IF a < 2000000 THEN (a * 1000) \div b
  ELSE IF b < 2000000 THEN (a \div b) * 1000 + ((a % b) * 1000) \div b
  ELSE a \div (b \div 1000)

DivMilli(a, b) == Sign(a) * Sign(b) * DivNat(Abs(a), Abs(b))

FNeg(x) ==
  IF x.k = "fin" THEN Fin(-x.v)
  ELSE IF x.k = "pinf" THEN NInf
  ELSE IF x.k = "ninf" THEN PInf
  ELSE NaN

FAbs(x) ==
  IF x.k = "fin" THEN Fin(Abs(x.v))
  ELSE IF x.k = "nan" THEN NaN
  ELSE PInf

FAdd(a, b) ==
  IF a.k = "nan" \/ b.k = "nan" THEN NaN
  ELSE IF a.k = "fin" /\ b.k = "fin" THEN Fin(a.v + b.v)
  ELSE IF a.k = "fin" THEN b
  ELSE IF b.k = "fin" THEN a
  ELSE IF a.k = b.k THEN a
  ELSE NaN

FSub(a, b) == FAdd(a, FNeg(b))

FMul(a, b) ==
  IF a.k = "nan" \/ b.k = "nan" THEN NaN
  ELSE IF a.k = "fin" /\ b.k = "fin" THEN Fin(MulMilli(a.v, b.v))
  ELSE IF FSign(a) * FSign(b) = 0 THEN NaN
  ELSE InfOf(FSign(a) * FSign(b))

\* numpy's true division: x / 0 is an infinity, 0 / 0 and inf / inf are NaN
FDiv(a, b) ==
  IF a.k = "nan" \/ b.k = "nan" THEN NaN
  ELSE IF a.k = "fin" /\ b.k = "fin" THEN
         IF b.v = 0 THEN (IF a.v = 0 THEN NaN ELSE InfOf(Sign(a.v)))
         ELSE Fin(DivMilli(a.v, b.v))
  ELSE IF a.k = "fin" THEN Fin(0)
  ELSE IF b.k = "fin" THEN InfOf(FSign(a) * (IF b.v < 0 THEN -1 ELSE 1))
  ELSE NaN

\* a < b, false when either is NaN
FLess(a, b) ==
  IF a.k = "nan" \/ b.k = "nan" THEN FALSE
  ELSE IF a.k = "fin" /\ b.k = "fin" THEN a.v < b.v
  ELSE IF a.k = b.k THEN FALSE
  ELSE a.k = "ninf" \/ b.k = "pinf"

\* np.exp on a finite argument a / 1000 <= 0: 2^-k * e^-r with
\* a = k ln 2 + r, e^-r by its Taylor polynomial
ExpNeg(a) ==
  LET k == a \div 693
      r == a % 693
      t2 == (r * r) \div 2000
      t3 == (t2 * r) \div 3000
      t4 == (t3 * r) \div 4000
      e == 1000 - r + t2 - t3 + t4
  IN  IF k > 20 THEN 0 ELSE e \div (2 ^ k)

\* np.exp on a finite argument a / 1000 > 0 below the overflow threshold
ExpPos(a) ==
  LET k == a \div 693
      r == a % 693
      t2 == (r * r) \div 2000
      t3 == (t2 * r) \div 3000
      t4 == (t3 * r) \div 4000
      e == 1000 + r + t2 + t3 + t4
  IN  e * (2 ^ k)

\* float64 overflows to inf above e^709.78
ExpOverflowMilli == 709782

\* np.exp
FExp(x) ==
  IF x.k = "nan" THEN NaN
  ELSE IF x.k = "pinf" THEN PInf
  ELSE IF x.k = "ninf" THEN Fin(0)
  ELSE IF x.v > ExpOverflowMilli THEN PInf
  ELSE IF x.v > 0 THEN Fin(ExpPos(x.v))
  ELSE Fin(ExpNeg(-x.v))

\* np.sin(2 pi u) for u >= 0 given in thousandths of a turn, by Bhaskara's
\* rational approximation 16 p (1 - p) / (5 - 4 p (1 - p)), p the position
\* in the half turn; exact at 0, 1/4, 1/2, 3/4 of a turn, within 0.002
\* elsewhere
SinTurn(u) ==
  LET w == u % 1000
      h == w % 500
      q == h * (500 - h)
      s == (16000 * q) \div (1250000 - 4 * q)
  IN  IF w < 500 THEN s ELSE -s

\* np.cos(2 pi u)
CosTurn(u) == SinTurn(u + 250)

\* ------------------------------------------------------------------------
\* Arrays: a numpy array of n samples is a sequence x with x[i + 1] the
\* sample of index i

\* An ndarray: the values themselves, a sequence indexed from 1
Array(f) == f \o <<>>

RECURSIVE FSumRange(_, _, _)
\* f[lo] + ... + f[hi], added pairwise
FSumRange(f, lo, hi) ==
  IF lo > hi THEN Fin(0)
  ELSE IF lo = hi THEN f[lo]
  ELSE LET mid == (lo + hi) \div 2
       IN  FAdd(FSumRange(f, lo, mid), FSumRange(f, mid + 1, hi))

\* The sum of the terms f[1], ..., f[n]
FSum(f, n) ==
  LET terms == Array(f)
  IN  IF Len(terms) = 0 THEN Fin(0) ELSE FSumRange(terms, 1, n)

\* The larger of two magnitudes as np.max takes it: NaN when either is NaN
FMax(a, b) ==
  IF a.k = "nan" \/ b.k = "nan" THEN NaN
  ELSE IF FLess(a, b) THEN b ELSE a

RECURSIVE MaxAbsRange(_, _, _)
MaxAbsRange(x, lo, hi) ==
  IF lo = hi THEN FAbs(x[lo])
  ELSE LET mid == (lo + hi) \div 2
       IN  FMax(MaxAbsRange(x, lo, mid), MaxAbsRange(x, mid + 1, hi))

\* np.max(np.abs(x[:n])), n >= 1: NaN when any sample is NaN
MaxAbs(x, n) == MaxAbsRange(x, 1, n)

\* x / d, element by element
ArrDiv(x, d) == Array([i \in 1..Len(x) |-> FDiv(x[i], d)])

ArrAdd(x, y) == Array([i \in 1..Len(x) |-> FAdd(x[i], y[i])])

ArrMul(x, y) == Array([i \in 1..Len(x) |-> FMul(x[i], y[i])])

ArrScale(c, x) == Array([i \in 1..Len(x) |-> FMul(Fin(c), x[i])])

\* signal.convolve(x, y)[:n] for two arrays of n samples (mode "full"):
\* out[i] = sum over j <= i of x[j] * y[i - j]
Convolve(x, y, n) ==
  Array([i \in 1..n |-> FSum([j \in 1..i |-> FMul(x[j], y[i - j + 1])], i)])

\* ------------------------------------------------------------------------
\* generate_synthetic_ir(fs, rt60, length_sec, dims, phi): fs in Hz, rt60 and
\* length_sec in milliseconds, dims in millimetres

\* int(fs * length_sec), the number of samples: the fraction is cut off.
\* A mutant of NumSamples: the product is rounded to the nearest integer.
MutNumSamplesRounded(fs, length_ms) == (fs * length_ms + 500) \div 1000

NumSamples(fs, length_ms) == Trunc(fs * length_ms, 1000)

\* np.linspace(0, length_sec, n), in microseconds: n points, both ends
\* included (the single point 0 when n = 1)
Linspace(length_ms, n) ==
  Array([i \in 1..n |->
           IF n = 1 THEN 0 ELSE ((i - 1) * length_ms * 1000) \div (n - 1)])

\* np.log(1000) = 6.908, in thousandths
Ln1000Milli == 6908

\* beta = np.log(1000) / rt60, per second: a float64 division, +inf for
\* rt60 = 0
Beta(rt60_ms) ==
  IF rt60_ms = 0 THEN PInf
  ELSE Fin(Sign(rt60_ms) * ((Ln1000Milli * 1000) \div Abs(rt60_ms)))

\* x * t for a float x and a time t >= 0 given in microseconds
TimesSeconds(x, t_us) ==
  IF x.k = "nan" THEN NaN
  ELSE IF x.k = "fin" THEN Fin(Sign(x.v) * (MulNat(Abs(x.v), t_us) \div 1000))
  ELSE IF t_us = 0 THEN NaN
  ELSE x

\* tail = noise * np.exp(-beta * t)
DecayedTail(noise, rt60_ms, length_ms, n) ==
  LET t == Linspace(length_ms, n)
      beta == Beta(rt60_ms)
  IN  Array([i \in 1..n |->
               FMul(noise[i], FExp(TimesSeconds(FNeg(beta), t[i])))])

\* reflection_delay = max_dim / 343, in microseconds
ReflectionDelay(dims) ==
  LET max_dim == Max3(dims)
  IN  Sign(max_dim) * ((Abs(max_dim) * 1000) \div SpeedOfSound)

\* The first and the largest admissible end of the early-reflection window,
\* 0.005 s and 0.15 s, in microseconds
ErFirstUs == 5000

ErLastUs == 150000

\* The number of early-reflection taps
ErTaps == 6

\* idx = int(et * fs) for et = er_times[k], k = 0..5, where
\* er_times = np.linspace(0.005, min(0.15, reflection_delay), 6)
ErIndex(k, fs, dims) ==
  LET refl == ReflectionDelay(dims)
      last == IF refl < ErLastUs THEN refl ELSE ErLastUs
      et5 == (ErTaps - 1) * ErFirstUs + k * (last - ErFirstUs)
  IN  IF et5 >= 0 THEN (et5 * fs) \div ((ErTaps - 1) * 1000000)
      ELSE -(((-et5) * fs) \div ((ErTaps - 1) * 1000000))

RECURSIVE Isqrt(_, _)
\* The integer square root of n by Newton's iteration from a guess g that
\* is not below it
Isqrt(n, g) ==
  IF n = 0 THEN 0
  ELSE LET h == (g + n \div g) \div 2
       IN  IF h >= g THEN g ELSE Isqrt(n, h)

\* f = (c / 2) * sqrt((l / Lx)^2 + (m / Ly)^2 + (n / Lz)^2) in millihertz;
\* the three quotients are taken in units of 1e-4 per metre
ModeFreq(l, m, n, dims) ==
  LET ax == (l * 10000000) \div Abs(dims[1])
      ay == (m * 10000000) \div Abs(dims[2])
      az == (n * 10000000) \div Abs(dims[3])
      q == ax * ax + ay * ay + az * az
  IN  ((SpeedOfSound * 5) * Isqrt(q, ax + ay + az)) \div 100

\* range(3): the mode indices of each axis
ModeIndexBound == 3

\* modes, in the order the three nested loops append them ((0,0,0) skipped)
ModeList(dims) ==
  LET B == ModeIndexBound
      Triple(i) == <<i \div (B * B), (i \div B) % B, i % B>>
  IN  Array([i \in 1..(B * B * B - 1) |->
               ModeFreq(Triple(i)[1], Triple(i)[2], Triple(i)[3], dims)])

\* sorted(xs)[i - 1]: the i-th smallest element, with multiplicity
SortedAt(xs, i) ==
  CHOOSE v \in {xs[j] : j \in 1..Len(xs)} :
    /\ Cardinality({j \in 1..Len(xs) : xs[j] < v}) < i
    /\ i <= Cardinality({j \in 1..Len(xs) : xs[j] <= v})

\* The number of modes that are emphasized
ModesKept == 6

\* sorted(modes)[:6]
LowestModes(dims) ==
  LET modes == ModeList(dims)
      kept == IF Len(modes) < ModesKept THEN Len(modes) ELSE ModesKept
  IN  Array([i \in 1..kept |-> SortedAt(modes, i)])

\* The number of bins of np.fft.rfft / np.fft.rfftfreq for n samples
NumBins(n) == n \div 2 + 1

RECURSIVE ArgMinFrom(_, _, _, _, _)
\* np.argmin(np.abs(freqs - f)) for freqs = np.fft.rfftfreq(n, 1 / fs), whose
\* bin k is k * fs / n: the first bin at the least distance.  best is the
\* best bin among 0..k-1.
ArgMinFrom(k, best, f_mhz, fs, n) ==
  IF k >= NumBins(n) THEN best
  ELSE LET dk == Abs(k * fs * 1000 - f_mhz * n)
           db == Abs(best * fs * 1000 - f_mhz * n)
       IN  ArgMinFrom(k + 1, IF dk < db THEN k ELSE best, f_mhz, fs, n)

NearestBin(f_mhz, fs, n) == ArgMinFrom(1, 0, f_mhz, fs, n)

\* np.fft.rfft(x) for n = Len(x) samples: bin k is
\* sum x[j] * (cos(2 pi j k / n) - i sin(2 pi j k / n))
Rfft(x, n) ==
  Array([b \in 1..NumBins(n) |->
     LET u(j) == ((((b - 1) * (j - 1)) % n) * 1000) \div n
     IN  [re |-> FSum([j \in 1..n |-> FMul(x[j], Fin(CosTurn(u(j))))], n),
          im |-> FNeg(FSum([j \in 1..n |-> FMul(x[j], Fin(SinTurn(u(j))))], n))]])

\* np.fft.irfft(spec, n): the real signal whose half spectrum is spec; the
\* imaginary parts of bin 0 and, for even n, of the last bin do not enter
Irfft(spec, n) ==
  Array([j \in 1..n |->
     LET u(b) == ((((b - 1) * (j - 1)) % n) * 1000) \div n
         w(b) == IF b = 1 \/ (n % 2 = 0 /\ b = NumBins(n)) THEN 1000 ELSE 2000
         term(b) ==
           IF w(b) = 1000 THEN FMul(spec[b].re, Fin(CosTurn(u(b))))
           ELSE FMul(Fin(w(b)),
                     FSub(FMul(spec[b].re, Fin(CosTurn(u(b)))),
                          FMul(spec[b].im, Fin(SinTurn(u(b))))))
         total == FSum([b \in 1..NumBins(n) |-> term(b)], NumBins(n))
     IN  IF total.k = "fin" THEN Fin(Trunc(total.v, n)) ELSE total])

\* spec[idx] *= g for a real factor g given in thousandths
ScaleBin(spec, idx, g) ==
  Array([spec EXCEPT ![idx + 1] = [re |-> FMul(spec[idx + 1].re, Fin(g)),
                                   im |-> FMul(spec[idx + 1].im, Fin(g))]])

\* phi ** 2 = 2.618, in thousandths
PhiSquaredMilli == (PhiMilli * PhiMilli) \div 1000

\* The boost of a harmonic bin, 1.3, in thousandths
HarmonicBoostMilli == 1300

\* A mutant of BoostHarmonic: the test harm < fs / 2 is left out.
MutBoostNoNyquist(spec, mode, mult, fs, n) ==
  ScaleBin(spec, NearestBin(MulMilli(mode, mult), fs, n), HarmonicBoostMilli)

\* The inner loop body for one harmonic multiplier mult (thousandths)
BoostHarmonic(spec, mode, mult, fs, n) ==
  LET harm == MulMilli(mode, mult)
  IN  IF harm * 2 < fs * 1000
      THEN ScaleBin(spec, NearestBin(harm, fs, n), HarmonicBoostMilli)
      ELSE spec

\* A mutant of BoostMode: a harmonic whose bin is the mode's own bin is
\* skipped.
MutBoostDistinctBins(spec, mode, fs, n) ==
  LET at == NearestBin(mode, fs, n)
      s1 == ScaleBin(spec, at, PhiMilli)
      h1 == MulMilli(mode, PhiMilli)
      h2 == MulMilli(mode, PhiSquaredMilli)
      s2 == IF NearestBin(h1, fs, n) = at THEN s1
            ELSE BoostHarmonic(s1, mode, PhiMilli, fs, n)
  IN  IF NearestBin(h2, fs, n) = at THEN s2
      ELSE BoostHarmonic(s2, mode, PhiSquaredMilli, fs, n)

\* The loop body for one mode: the mode's bin times phi, then the two
\* harmonics mode * phi and mode * phi ** 2
BoostMode(spec, mode, fs, n) ==
  LET s1 == ScaleBin(spec, NearestBin(mode, fs, n), PhiMilli)
      s2 == BoostHarmonic(s1, mode, PhiMilli, fs, n)
  IN  BoostHarmonic(s2, mode, PhiSquaredMilli, fs, n)

\* The headroom factor of the final division, 0.7, in thousandths
IrHeadroomMilli == 700

\* ir /= np.max(np.abs(ir)) * 0.7
NormalizeIr(ir, n) == ArrDiv(ir, FMul(MaxAbs(ir, n), Fin(IrHeadroomMilli)))

\* Line 1108: signal.convolve(er, tail[:len(er)])[:len(t)]; scipy rejects
\* empty inputs with ValueError
IrConvolved(rt60_ms, length_ms, noise, er, n) ==
  IF n = 0 THEN Raise("ValueError")
  ELSE Ok(Convolve(er, DecayedTail(noise, rt60_ms, length_ms, n), n))

\* Lines 1109-1116 and the sorted(modes)[:6] of line 1119: l / dims[0]
\* raises ZeroDivisionError for a zero length
ModesOf(dims) ==
  IF \E i \in 1..3 : dims[i] = 0 THEN Raise("ZeroDivisionError")
  ELSE Ok(LowestModes(dims))

\* ------------------------------------------------------------------------
\* generate_binaural_isochronic_tone(fs, rt60, dims, phi, length_sec, pulse)

\* A rational number of hertz in millihertz
ToMilli(r) == Trunc(r.n * 1000, r.d)

\* np.sin(2 * np.pi * f * t) for f in millihertz and t in microseconds
SineAt(f_mhz, t_us) == SinTurn((f_mhz * t_us) \div 1000000)

\* The tone amplitude 0.15, in thousandths
ToneAmplitudeMilli == 150

\* 0.15 * np.sin(2 * np.pi * f * t)
SineTone(f_mhz, t) ==
  Array([i \in 1..Len(t) |->
           Fin(MulMilli(ToneAmplitudeMilli, SineAt(f_mhz, t[i])))])

\* envelope = 0.5 * (1 + np.sin(2 * np.pi * pulse_rate * t))
Envelope(rate_mhz, t) ==
  Array([i \in 1..Len(t) |-> Fin(MulMilli(500, 1000 + SineAt(rate_mhz, t[i])))])

\* max([max(data['dims']) for data in SACRED_SITES.values()]) of line 1143,
\* for a dict with at least one site, in millimetres
CatalogMaxDim(sites) ==
  LET tops == {Max3(sites[s].dims) : s \in DOMAIN sites}
  IN  CHOOSE x \in tops : \A y \in tops : y <= x

\* Line 1143: lowpass_freq in Hz. max() of the empty list raises ValueError,
\* a largest dim of zero across the dict divides by zero
LowpassFreq(dims, sites) ==
  IF DOMAIN sites = {} THEN Raise("ValueError")
  ELSE IF CatalogMaxDim(sites) = 0 THEN Raise("ZeroDivisionError")
  ELSE Ok(RAdd(RInt(400),
              RMul(Rat(Max3(dims), CatalogMaxDim(sites)), RInt(200))))

\* signal.butter(4, Wn, btype='low') accepts 0 < Wn < 1 only, where
\* Wn = lowpass_freq / (fs / 2)
ButterAccepts(lowpass, fs) ==
  RLess(RInt(0), lowpass) /\ RLess(RMul(lowpass, RInt(2)), RInt(fs))

\* The order of the Butterworth filter
FilterOrder == 4

\* signal.filtfilt pads by 3 * max(len(a), len(b)) samples, 15 for the
\* order 4, and accepts only inputs longer than that
FiltfiltPadlen == 3 * (FilterOrder + 1)

\* signal.filtfilt(b, a, x): a zero-phase low-pass of unit gain at 0 Hz.
\* The Butterworth response itself belongs to scipy; it is represented by
\* the symmetric kernel (1, 2, 1) / 4 with the end samples repeated.
LowPass(x) ==
  LET n == Len(x)
      at(i) == IF i < 1 THEN x[1] ELSE IF i > n THEN x[n] ELSE x[i]
      sum(i) == FAdd(FAdd(at(i - 1), FMul(Fin(2000), at(i))), at(i + 1))
  IN  Array([i \in 1..n |->
               IF sum(i).k = "fin" THEN Fin(Trunc(sum(i).v, 4)) ELSE sum(i)])

\* The gain of the noise floor, 0.02, in thousandths
AirGainMilli == 20

\* x /= np.max(np.abs(x))
NormalizePeak(x) == ArrDiv(x, MaxAbs(x, Len(x)))

\* A mutant of ShapedTone: the envelope is applied whether pulse is set or not.
MutShapedAlways(f_mhz, rate_mhz, pulse, t) ==
  ArrMul(SineTone(f_mhz, t), Envelope(rate_mhz, t))

\* Lines 1136-1141 for one channel: the tone at f, times the envelope when
\* pulse is set
ShapedTone(f_mhz, rate_mhz, pulse, t) ==
  IF pulse THEN ArrMul(SineTone(f_mhz, t), Envelope(rate_mhz, t))
  ELSE SineTone(f_mhz, t)

\* Lines 1147-1150 for one channel: the tone plus the air, peak-normalized
CombinedChannel(tone, air) == NormalizePeak(ArrAdd(tone, air))

\* Lines 1152-1157: each channel convolved with the IR, cut to n samples,
\* peak-normalized, the two stacked as rows (left, right)
ToneFromIr(left, right, ir, n) ==
  LET output_left == NormalizePeak(Convolve(left, ir, n))
      output_right == NormalizePeak(Convolve(right, ir, n))
  IN  Array([i \in 1..n |-> <<output_left[i], output_right[i]>>])

\* ------------------------------------------------------------------------
\* The process-wide generator np.random: a position in a pseudo-random
\* stream of period RngPeriod.  Every draw reads the value at the current
\* position and advances it.

RngPeriod == 3

\* The underlying stream, 0..100
RngRaw(pos) == (pos * pos * 29 + pos * 53 + 17) % 101

\* The value np.random.normal(0, 1) returns at a position, in thousandths
\* (never exactly 0.0)
NormalAt(pos) ==
  LET v == (RngRaw(pos % RngPeriod) - 50) * 40
  IN  IF v = 0 THEN 20 ELSE v

\* The value np.random.uniform(0.3, 0.9) returns at a position
UniformAt(pos) == 300 + (600 * RngRaw(pos % RngPeriod)) \div 101

\* np.random.normal(0, 1, n) from position pos
NormalArray(pos, n) == Array([i \in 1..n |-> Fin(NormalAt(pos + i - 1))])

\* ------------------------------------------------------------------------
\* State

VARIABLES
  probe,   \* a direct call of one tuning function: [fn, dims, base, res]
  rng,     \* the position of the process-wide generator np.random
  req,     \* per worker thread: the synthesis call it is executing
  SACRED_SITES,   \* the module-level dict of sites: name -> [rt60, dims]
  COUNTRIES       \* the module-level dict country -> list of site names

vars == <<probe, rng, req, SACRED_SITES, COUNTRIES>>

\* The two catalog tables
catalog == <<SACRED_SITES, COUNTRIES>>

\* Worker threads of the server (app.run serves each request in a thread)
NumSlots == 2

Slots == 1..NumSlots

NoDims == <<0, 0, 0>>

Pending == Raise("pending")

IsPending(r) == r.err = "pending"

\* A thread that executes no call
Idle ==
  [pc |-> "idle", kind |-> "none", fs |-> 0, rt60 |-> 0, len |-> 0,
   dims |-> NoDims, pulse |-> FALSE, left |-> <<>>, right |-> <<>>,
   noise |-> <<>>, er |-> <<>>, k |-> 0, drawn |-> <<>>,
   base |-> RInt(0), delta |-> RInt(0), rate |-> RInt(0),
   air |-> <<>>, modes |-> <<>>, spec |-> <<>>, m |-> 0,
   ir |-> Pending, res |-> Pending,
   route |-> "none", site |-> "none", status |-> 0,
   lowpass |-> RInt(0), data |-> <<>>]

\* ------------------------------------------------------------------------
\* Inputs

\* Great Pyramid King's Chamber, the default dims of both synthesis functions
KingsChamber == <<10470, 5235, 5827>>

\* Konark Sun Temple, the largest room of the catalog
KonarkSunTemple == <<229000, 128000, 20000>>

\* The default geometry (10, 10, 10) of the specification
DefaultDims == <<10000, 10000, 10000>>

\* SACRED_SITES as the module builds it, four of its sites: rt60 in
\* milliseconds and dims in millimetres
SitesAtImport ==
  [site \in {"Great Pyramid King's Chamber", "Great Pyramid Queen's Chamber",
             "Konark Sun Temple", "Meteora Monasteries"} |->
     CASE site = "Great Pyramid King's Chamber" ->
            [rt60 |-> 2500, dims |-> KingsChamber]
       [] site = "Great Pyramid Queen's Chamber" ->
            [rt60 |-> 1500, dims |-> <<5750, 5230, 6230>>]
       [] site = "Konark Sun Temple" ->
            [rt60 |-> 5000, dims |-> KonarkSunTemple]
       [] site = "Meteora Monasteries" ->
            [rt60 |-> 4000, dims |-> <<10000, 8000, 6000>>]]

\* COUNTRIES as the module builds it, for the same sites: the lists of Egypt
\* and India; no list of lines 982-1072 holds Meteora Monasteries
CountriesAtImport ==
  [country \in {"Egypt", "India"} |->
     IF country = "Egypt"
     THEN <<"Great Pyramid King's Chamber", "Great Pyramid Queen's Chamber">>
     ELSE <<"Konark Sun Temple">>]

\* JSON bodies of the POST requests: a known site, an unknown one, no site
\* field; with and without the pulse field
IrBodies ==
  {[site |-> s] : s \in DOMAIN SitesAtImport \cup {"Atlantis"}} \cup {<<>>}

ToneBodies ==
  IrBodies \cup
    {[site |-> s, pulse |-> b] :
       s \in {"Great Pyramid Queen's Chamber", "Atlantis"}, b \in BOOLEAN}

\* data.get(key, default)
Get(data, key, default) == IF key \in DOMAIN data THEN data[key] ELSE default

\* The endpoints synthesize one second at fs = 44100; the model scales the
\* sample rate and the length down to buffers of 4 and 16 samples
EndpointIr == [fs |-> 100, len |-> 40]

EndpointTone == [fs |-> 2000, len |-> 8]

\* Arguments of direct calls of generate_synthetic_ir: sample rates and
\* lengths scaled down so that a buffer has at most 16 samples.
IrArgs ==
  { [fs |-> 100, rt60 |-> 2500, len |-> 40, dims |-> KingsChamber],
    [fs |-> 100, rt60 |-> 2500, len |-> 47, dims |-> KingsChamber],
    [fs |-> 100, rt60 |-> 2500, len |-> 4, dims |-> KingsChamber],
    [fs |-> 100, rt60 |-> 2500, len |-> -10, dims |-> KingsChamber],
    [fs |-> 200, rt60 |-> 2500, len |-> 5, dims |-> KingsChamber],
    [fs |-> 100, rt60 |-> 0, len |-> 40, dims |-> KingsChamber],
    [fs |-> 10, rt60 |-> -1, len |-> 200, dims |-> KingsChamber],
    [fs |-> 100, rt60 |-> 2500, len |-> 40, dims |-> <<0, 5235, 5827>>],
    [fs |-> 100, rt60 |-> 2500, len |-> 40, dims |-> <<-10000, -10000, -10000>>],
    [fs |-> 100, rt60 |-> 2500, len |-> 40, dims |-> DefaultDims],
    [fs |-> 100, rt60 |-> 5000, len |-> 160, dims |-> KonarkSunTemple] }

\* Arguments of direct calls of generate_binaural_isochronic_tone
ToneArgs ==
  { [fs |-> 2000, rt60 |-> 2500, len |-> 8, dims |-> KingsChamber, pulse |-> TRUE],
    [fs |-> 1750, rt60 |-> 2500, len |-> 10, dims |-> KingsChamber, pulse |-> FALSE],
    [fs |-> 2000, rt60 |-> 0, len |-> 8, dims |-> KingsChamber, pulse |-> TRUE],
    [fs |-> 100, rt60 |-> 2500, len |-> 40, dims |-> KingsChamber, pulse |-> TRUE],
    [fs |-> 2000, rt60 |-> 2500, len |-> 5, dims |-> KingsChamber, pulse |-> TRUE],
    [fs |-> 2000, rt60 |-> 2500, len |-> 8, dims |-> NoDims, pulse |-> TRUE],
    [fs |-> 2000, rt60 |-> 2500, len |-> 8, dims |-> <<-10000, -10000, -10000>>,
     pulse |-> FALSE],
    [fs |-> 2000, rt60 |-> 2500, len |-> 8, dims |-> DefaultDims, pulse |-> FALSE] }

\* ------------------------------------------------------------------------
\* Steps of a synthesis call.  A step is the code between two accesses of
\* np.random, the only state the threads share.

Done(r, result) == [req EXCEPT ![r].pc = "done", ![r].res = result]

\* The first tap at or after k that the loop of lines 1104-1107 writes, ErTaps
\* when there is none: the iterations with idx >= len(t) touch nothing
RECURSIVE NextTap(_, _, _, _)
NextTap(k, fs, dims, n) ==
  IF k >= ErTaps \/ ErIndex(k, fs, dims) < n THEN k
  ELSE NextTap(k + 1, fs, dims, n)

\* A caller invokes generate_synthetic_ir(fs, rt60, length_sec, dims)
CallIr(r, args) ==
  /\ req[r].pc = "idle"
  /\ \E a \in args :
       req' = [req EXCEPT ![r] =
                 [Idle EXCEPT !.pc = "ir_noise", !.kind = "ir", !.fs = a.fs,
                              !.rt60 = a.rt60, !.len = a.len, !.dims = a.dims]]
  /\ UNCHANGED <<probe, rng, catalog>>

\* A caller invokes generate_binaural_isochronic_tone(fs, rt60, dims,
\* length_sec, pulse)
CallTone(r, args) ==
  /\ req[r].pc = "idle"
  /\ \E a \in args :
       req' = [req EXCEPT ![r] =
                 [Idle EXCEPT !.pc = "tone_tuning", !.kind = "tone", !.fs = a.fs,
                              !.rt60 = a.rt60, !.len = a.len, !.dims = a.dims,
                              !.pulse = a.pulse]]
  /\ UNCHANGED <<probe, rng, catalog>>

\* The dict SACRED_SITES once the list behind the key site holds dims.  A
\* request of an endpoint passes SACRED_SITES[site]['dims'] itself, not a
\* copy; a direct call (site "none") passes a list of its own.
SitesWithDims(site, dims) ==
  IF site \in DOMAIN SACRED_SITES
  THEN [SACRED_SITES EXCEPT ![site].dims = dims]
  ELSE SACRED_SITES

\* Lines 1132-1135: the time axis (np.linspace rejects a negative count)
\* and the three tuning values.  max(dims) reads the list and sorted(dims)
\* copies it.
ToneTuning(r) ==
  LET q == req[r]
      base == calculate_fundamental_frequency(q.dims)
      rate == calculate_isochronic_rate(q.dims)
      after == ListAfterSorted(q.dims)
  IN  /\ q.pc = "tone_tuning"
      /\ UNCHANGED <<probe, rng, COUNTRIES>>
      /\ IF NumSamples(q.fs, q.len) < 0 THEN
           req' = Done(r, Raise("ValueError")) /\ UNCHANGED SACRED_SITES
         ELSE IF ~base.ok THEN req' = Done(r, base) /\ UNCHANGED SACRED_SITES
         ELSE
           /\ SACRED_SITES' = SitesWithDims(q.site, after)
           /\ IF ~rate.ok THEN req' = [Done(r, rate) EXCEPT ![r].dims = after]
              ELSE req' = [req EXCEPT
                             ![r].pc = "tone_tones",
                             ![r].dims = after,
                             ![r].base = base.val,
                             ![r].delta = calculate_binaural_delta(base.val),
                             ![r].rate = rate.val]

\* Lines 1136-1141: the two tones, pulsed when pulse is set
ToneTones(r) ==
  LET q == req[r]
      t == Linspace(q.len, NumSamples(q.fs, q.len))
      rate_mhz == ToMilli(q.rate)
  IN  /\ q.pc = "tone_tones"
      /\ UNCHANGED <<probe, rng, catalog>>
      /\ req' = [req EXCEPT
                   ![r].pc = "tone_noise",
                   ![r].left = ShapedTone(ToMilli(q.base), rate_mhz, q.pulse, t),
                   ![r].right = ShapedTone(ToMilli(RAdd(q.base, q.delta)),
                                           rate_mhz, q.pulse, t)]

\* Lines 1142-1146: the cutoff, the noise draw and the filter
ToneNoise(r) ==
  LET q == req[r]
      n == NumSamples(q.fs, q.len)
      lowpass_freq == LowpassFreq(q.dims, SACRED_SITES)
      noise == NormalArray(rng, n)
      log == Append(q.drawn, <<rng, n>>)
  IN  /\ q.pc = "tone_noise"
      /\ UNCHANGED <<probe, catalog>>
      /\ IF ~lowpass_freq.ok
         THEN /\ req' = [req EXCEPT ![r].pc = "done", ![r].res = lowpass_freq]
              /\ UNCHANGED rng
         ELSE /\ rng' = (rng + n) % RngPeriod
              /\ IF ~ButterAccepts(lowpass_freq.val, q.fs) \/ n <= FiltfiltPadlen
                 THEN req' = [req EXCEPT ![r].pc = "done", ![r].drawn = log,
                                         ![r].lowpass = lowpass_freq.val,
                                         ![r].res = Raise("ValueError")]
                 ELSE req' = [req EXCEPT ![r].pc = "tone_combine",
                                         ![r].drawn = log,
                                         ![r].lowpass = lowpass_freq.val,
                                         ![r].air = ArrScale(AirGainMilli,
                                                             LowPass(noise))]

\* Lines 1147-1150: the two channels with the air, each peak-normalized
ToneCombine(r) ==
  LET q == req[r]
  IN  /\ q.pc = "tone_combine"
      /\ UNCHANGED <<probe, rng, catalog>>
      /\ req' = [req EXCEPT ![r].pc = "ir_noise",
                            ![r].left = CombinedChannel(q.left, q.air),
                            ![r].right = CombinedChannel(q.right, q.air)]

\* Lines 1096-1103: the time axis, beta, the noise draw, the empty train,
\* and the loop iterations up to the first one that draws
IrNoise(r) ==
  LET q == req[r]
      n == NumSamples(q.fs, q.len)
      k == NextTap(0, q.fs, q.dims, n)
  IN  /\ q.pc = "ir_noise"
      /\ UNCHANGED <<probe, catalog>>
      /\ IF n < 0 THEN
           req' = Done(r, Raise("ValueError")) /\ UNCHANGED rng
         ELSE
           /\ rng' = (rng + n) % RngPeriod
           /\ req' = [req EXCEPT ![r].pc = IF k = ErTaps THEN "ir_convolve" ELSE "er",
                                 ![r].k = k,
                                 ![r].noise = NormalArray(rng, n),
                                 ![r].er = [i \in 1..n |-> Fin(0)],
                                 ![r].drawn = Append(q.drawn, <<rng, n>>)]

\* A mutant of ErTap: the loop over er_times does not advance.
MutErTapForever(r) ==
  LET q == req[r]
      n == NumSamples(q.fs, q.len)
      idx == ErIndex(q.k, q.fs, q.dims)
  IN  /\ q.pc = "er"
      /\ UNCHANGED <<probe, catalog>>
      /\ rng' = (rng + 1) % RngPeriod
      /\ req' = [req EXCEPT
                   ![r].er[((IF idx < 0 THEN idx + n ELSE idx) % n) + 1] =
                      Fin(UniformAt(rng))]

\* Lines 1104-1107, the iteration of the loop over er_times at tap k, whose
\* idx < len(t), and the iterations after it up to the next one that draws:
\* the amplitude is drawn, then stored; a negative idx counts from the end
\* of er, and one below -len(t) raises IndexError after the draw
ErTap(r) ==
  LET q == req[r]
      n == NumSamples(q.fs, q.len)
      idx == ErIndex(q.k, q.fs, q.dims)
      k == NextTap(q.k + 1, q.fs, q.dims, n)
      log == Append(q.drawn, <<rng, 1>>)
  IN  /\ q.pc = "er"
      /\ UNCHANGED <<probe, catalog>>
      /\ rng' = (rng + 1) % RngPeriod
      /\ IF idx < -n THEN
           req' = [req EXCEPT ![r].pc = "done", ![r].drawn = log,
                              ![r].res = Raise("IndexError")]
         ELSE
           req' = [req EXCEPT
                     ![r].pc = IF k = ErTaps THEN "ir_convolve" ELSE "er",
                     ![r].k = k,
                     ![r].drawn = log,
                     ![r].er[(IF idx < 0 THEN idx + n ELSE idx) + 1] =
                        Fin(UniformAt(rng))]

\* Line 1108: the impulse train convolved with the decayed noise
IrConvolve(r) ==
  LET q == req[r]
      ir == IrConvolved(q.rt60, q.len, q.noise, q.er, NumSamples(q.fs, q.len))
  IN  /\ q.pc = "ir_convolve"
      /\ UNCHANGED <<probe, rng, catalog>>
      /\ IF ir.ok
         THEN req' = [req EXCEPT ![r].pc = "ir_modes", ![r].ir = ir]
         ELSE req' = Done(r, ir)

\* Lines 1109-1116: the list of room modes
IrModes(r) ==
  LET q == req[r]
      modes == ModesOf(q.dims)
  IN  /\ q.pc = "ir_modes"
      /\ UNCHANGED <<probe, rng, catalog>>
      /\ IF modes.ok
         THEN req' = [req EXCEPT ![r].pc = "ir_rfft", ![r].modes = modes.val]
         ELSE req' = Done(r, modes)

\* Lines 1117-1118: the spectrum of the convolved signal
IrRfft(r) ==
  LET q == req[r]
  IN  /\ q.pc = "ir_rfft"
      /\ UNCHANGED <<probe, rng, catalog>>
      /\ req' = [req EXCEPT ![r].pc = "ir_boost", ![r].m = 1,
                            ![r].spec = Rfft(q.ir.val, NumSamples(q.fs, q.len))]

\* Lines 1119-1126, one iteration of the loop over the six lowest modes
IrBoost(r) ==
  LET q == req[r]
  IN  /\ q.pc = "ir_boost"
      /\ UNCHANGED <<probe, rng, catalog>>
      /\ req' = [req EXCEPT
                   ![r].pc = IF q.m = Len(q.modes) THEN "ir_irfft" ELSE "ir_boost",
                   ![r].m = q.m + 1,
                   ![r].spec = BoostMode(q.spec, q.modes[q.m], q.fs,
                                         NumSamples(q.fs, q.len))]

\* Lines 1127-1129: back to the time domain, the normalization and the
\* return, to the caller or into generate_binaural_isochronic_tone
IrFinish(r) ==
  LET q == req[r]
      n == NumSamples(q.fs, q.len)
      ir == Ok(NormalizeIr(Irfft(q.spec, n), n))
  IN  /\ q.pc = "ir_irfft"
      /\ UNCHANGED <<probe, rng, catalog>>
      /\ IF q.kind = "ir"
         THEN req' = [req EXCEPT ![r].pc = "done", ![r].ir = ir, ![r].res = ir]
         ELSE req' = [req EXCEPT ![r].pc = "tone_finish", ![r].ir = ir]

\* Lines 1152-1157: the two output channels
ToneFinish(r) ==
  LET q == req[r]
  IN  /\ q.pc = "tone_finish"
      /\ UNCHANGED <<probe, rng, catalog>>
      /\ req' = Done(r, Ok(ToneFromIr(q.left, q.right, q.ir.val,
                                      NumSamples(q.fs, q.len))))

\* The caller has taken the result; the thread is free again
Return(r) ==
  /\ req[r].pc = "done"
  /\ req[r].route = "none" \/ req[r].status # 0
  /\ req' = [req EXCEPT ![r] = Idle]
  /\ UNCHANGED <<probe, rng, catalog>>

\* GET /
home(r) ==
  /\ req[r].pc = "idle"
  /\ req' = [req EXCEPT ![r] =
               [Idle EXCEPT !.pc = "done", !.route = "/", !.status = 200,
                            !.res = Ok("Welcome to Sanctra API!")]]
  /\ UNCHANGED <<probe, rng, catalog>>

\* GET /sites
get_sites(r) ==
  /\ req[r].pc = "idle"
  /\ req' = [req EXCEPT ![r] =
               [Idle EXCEPT !.pc = "done", !.route = "/sites", !.status = 200,
                            !.res = Ok(DOMAIN SACRED_SITES)]]
  /\ UNCHANGED <<probe, rng, catalog>>

\* GET /sites-by-country
get_sites_by_country(r) ==
  /\ req[r].pc = "idle"
  /\ req' = [req EXCEPT ![r] =
               [Idle EXCEPT !.pc = "done", !.route = "/sites-by-country",
                            !.status = 200, !.res = Ok(COUNTRIES)]]
  /\ UNCHANGED <<probe, rng, catalog>>

\* jsonify({'error': 'Invalid site'}), the body of the 400 answers
InvalidSite == Ok([error |-> "Invalid site"])

\* A mutant of generate_ir: a site outside the catalog is synthesized as the
\* default site instead of being answered 400.
MutGenerateIrUnchecked(r) ==
  /\ req[r].pc = "idle"
  /\ \E data \in IrBodies :
       LET named == Get(data, "site", "Great Pyramid King's Chamber")
           site == IF named \in DOMAIN SACRED_SITES THEN named
                   ELSE "Great Pyramid King's Chamber"
       IN  req' = [req EXCEPT ![r] =
                     [Idle EXCEPT !.pc = "ir_noise", !.kind = "ir",
                                  !.route = "/generate-ir", !.site = named,
                                  !.data = data,
                                  !.fs = EndpointIr.fs, !.len = EndpointIr.len,
                                  !.rt60 = SACRED_SITES[site].rt60,
                                  !.dims = SACRED_SITES[site].dims]]
  /\ UNCHANGED <<probe, rng, catalog>>

\* POST /generate-ir, up to the call of generate_synthetic_ir
generate_ir(r) ==
  /\ req[r].pc = "idle"
  /\ \E data \in IrBodies :
       LET site == Get(data, "site", "Great Pyramid King's Chamber")
       IN  IF site \notin DOMAIN SACRED_SITES
           THEN req' = [req EXCEPT ![r] =
                          [Idle EXCEPT !.pc = "done", !.route = "/generate-ir",
                                       !.data = data, !.site = site,
                                       !.status = 400, !.res = InvalidSite]]
           ELSE req' = [req EXCEPT ![r] =
                          [Idle EXCEPT !.pc = "ir_noise", !.kind = "ir",
                                       !.route = "/generate-ir", !.site = site,
                                       !.data = data,
                                       !.fs = EndpointIr.fs, !.len = EndpointIr.len,
                                       !.rt60 = SACRED_SITES[site].rt60,
                                       !.dims = SACRED_SITES[site].dims]]
  /\ UNCHANGED <<probe, rng, catalog>>

\* POST /generate-tone, up to the call of generate_binaural_isochronic_tone
generate_tone_endpoint(r) ==
  /\ req[r].pc = "idle"
  /\ \E data \in ToneBodies :
       LET site == Get(data, "site", "Great Pyramid King's Chamber")
           pulse == Get(data, "pulse", TRUE)
       IN  IF site \notin DOMAIN SACRED_SITES
           THEN req' = [req EXCEPT ![r] =
                          [Idle EXCEPT !.pc = "done", !.route = "/generate-tone",
                                       !.data = data, !.site = site,
                                       !.status = 400, !.res = InvalidSite]]
           ELSE req' = [req EXCEPT ![r] =
                          [Idle EXCEPT !.pc = "tone_tuning", !.kind = "tone",
                                       !.route = "/generate-tone", !.site = site,
                                       !.data = data,
                                       !.fs = EndpointTone.fs,
                                       !.len = EndpointTone.len,
                                       !.rt60 = SACRED_SITES[site].rt60,
                                       !.dims = SACRED_SITES[site].dims,
                                       !.pulse = pulse]]
  /\ UNCHANGED <<probe, rng, catalog>>

\* The return of an endpoint after the synthesis: jsonify serializes the
\* list generate_binaural_isochronic_tone returned, and raises TypeError on
\* the numpy array ir_data[:44100]; an exception of the synthesis is
\* answered with 500 as well
Respond(r) ==
  LET q == req[r]
  IN  /\ q.pc = "done" /\ q.route # "none" /\ q.status = 0
      /\ req' = [req EXCEPT ![r].status =
                   IF q.res.ok /\ q.kind = "tone" THEN 200 ELSE 500]
      /\ UNCHANGED <<probe, rng, catalog>>

\* The steps of a call under way
Run(r) ==
  \/ ToneTuning(r) \/ ToneTones(r) \/ ToneNoise(r) \/ ToneCombine(r)
  \/ IrNoise(r) \/ ErTap(r) \/ IrConvolve(r) \/ IrModes(r)
  \/ IrRfft(r) \/ IrBoost(r) \/ IrFinish(r) \/ ToneFinish(r) \/ Return(r)

NoProbe == [fn |-> "none", dims |-> NoDims, base |-> RInt(0), res |-> Raise("none")]

\* The generator is seeded from the operating system when numpy is imported:
\* any position
Init ==
  /\ probe = NoProbe
  /\ rng \in 0..(RngPeriod - 1)
  /\ req = [r \in Slots |-> Idle]
  /\ SACRED_SITES = SitesAtImport
  /\ COUNTRIES = CountriesAtImport

\* One call at a time, on the first thread
Next == CallIr(1, IrArgs) \/ CallTone(1, ToneArgs) \/ Run(1)

Spec == Init /\ [][Next]_vars

\* The synthesis functions are module-level and read the module's dict when
\* called: a caller that imports them may find the dict with or without sites
NoSites == [s \in {} |-> [rt60 |-> 0, dims |-> NoDims]]

InitCatalog ==
  /\ probe = NoProbe
  /\ rng \in 0..(RngPeriod - 1)
  /\ req = [r \in Slots |-> Idle]
  /\ SACRED_SITES \in {SitesAtImport, NoSites}
  /\ COUNTRIES = CountriesAtImport

SpecCatalog == InitCatalog /\ [][Next]_vars

\* Two threads serve /generate-ir at the same time; the buffer is one sample
\* long, so that every interleaving of the draws is explored
ConcIrArgs ==
  { [fs |-> 100, rt60 |-> 2500, len |-> 10, dims |-> KingsChamber],
    [fs |-> 200, rt60 |-> 2500, len |-> 5, dims |-> KingsChamber] }

NextConc ==
  \E r \in Slots :
    \/ CallIr(r, ConcIrArgs) \/ IrNoise(r) \/ ErTap(r) \/ IrConvolve(r)
    \/ IrModes(r) \/ IrRfft(r) \/ IrBoost(r) \/ IrFinish(r) \/ Return(r)

SpecConc == Init /\ [][NextConc]_vars

\* Two threads: the first makes the calls of Next, the second calls
\* generate_synthetic_ir with a negative length, which fails at line 1096
\* before any draw.  A thread inside a call is a running Python thread: no
\* step of a call waits for input, for a lock or for the other thread, and
\* the interpreter switches threads every few milliseconds, so the next step
\* of each thread is eventually taken
LiveOtherArgs == { [fs |-> 100, rt60 |-> 2500, len |-> -10, dims |-> KingsChamber] }

NextLive == Next \/ CallIr(2, LiveOtherArgs) \/ Run(2)

\* Weak fairness of the steps of thread r inside a call, WF_vars(Run(r)) with
\* its ENABLED written out: a step of Run(r) is possible exactly while the
\* thread is inside a call, and every such step changes req[r].pc or a counter
Proceeds(r) == <>[](req[r].pc # "idle") => []<><<Run(r)>>_vars

SpecLive ==
  /\ Init /\ [][NextLive]_vars
  /\ \A r \in Slots : WF_vars(Return(r)) /\ Proceeds(r)

\* Requests to the five endpoints, one at a time
NextApi ==
  \/ home(1) \/ get_sites(1) \/ get_sites_by_country(1)
  \/ generate_ir(1) \/ generate_tone_endpoint(1) \/ Run(1) \/ Respond(1)

SpecApi == Init /\ [][NextApi]_vars

\* ------------------------------------------------------------------------
\* Direct calls of the tuning functions

\* Lengths around the clamp thresholds (277.487 / max = 100 at 2.775 m, = 20
\* at 13.874 m; 171.5 / second = 10 at 17.15 m, = 2 at 85.75 m), a zero and a
\* negative length.
MaxDimSteps == 4

DimGrid ==
  {-5000, 0, 2000, 2774, 2775, 5235, 10470, 13874, 13875, 17150, 17151}
    \cup {25000 * k : k \in 1..MaxDimSteps}

DimsSet == {<<x, y, z>> : x \in DimGrid, y \in DimGrid, z \in DimGrid}

\* Base frequencies in tenths of a hertz, -2.0 .. MaxBaseTenths / 10
MaxBaseTenths == 150

BaseGrid == {Rat(k, 10) : k \in (-20)..MaxBaseTenths}

\* A direct call of one tuning function: the arguments are drawn by
\* InitTuning, the call itself is one step.
ProbeFundamental ==
  /\ probe.fn = "fundamental" /\ IsPending(probe.res)
  /\ probe' = [probe EXCEPT !.res = calculate_fundamental_frequency(probe.dims)]
  /\ UNCHANGED <<rng, req, catalog>>

ProbeDelta ==
  /\ probe.fn = "delta" /\ IsPending(probe.res)
  /\ probe' = [probe EXCEPT !.res = Ok(calculate_binaural_delta(probe.base))]
  /\ UNCHANGED <<rng, req, catalog>>

ProbeRate ==
  /\ probe.fn = "rate" /\ IsPending(probe.res)
  /\ probe' = [probe EXCEPT !.res = calculate_isochronic_rate(probe.dims)]
  /\ UNCHANGED <<rng, req, catalog>>

InitTuning ==
  /\ rng = 0
  /\ req = [r \in Slots |-> Idle]
  /\ SACRED_SITES = SitesAtImport
  /\ COUNTRIES = CountriesAtImport
  /\ \/ \E fn \in {"fundamental", "rate"}, dims \in DimsSet :
          probe = [fn |-> fn, dims |-> dims, base |-> RInt(0), res |-> Pending]
     \/ \E base \in BaseGrid :
          probe = [fn |-> "delta", dims |-> NoDims, base |-> base, res |-> Pending]

NextTuning == ProbeFundamental \/ ProbeDelta \/ ProbeRate

SpecTuning == InitTuning /\ [][NextTuning]_vars

\* Calls of generate_binaural_isochronic_tone for rooms of every size: the
\* longest side runs over the grid of the tuning probes, from rooms whose
\* fundamental is above 100 Hz to rooms whose fundamental is below 20 Hz
RoomArgs ==
  { [fs |-> 2000, rt60 |-> 2500, len |-> 8, dims |-> <<x, 2000, 2000>>,
     pulse |-> b] : x \in DimGrid, b \in BOOLEAN }

NextRooms == CallTone(1, RoomArgs) \/ Run(1)

SpecRooms == Init /\ [][NextRooms]_vars

\* ------------------------------------------------------------------------
\* The analytic core (PhysicalModel, BandModel, ModalAnalyzer,
\* ReflectionModel).  No file under src/ holds it; it is modelled from its
\* description in the specification.

\* Steps of the probe grids above their fixed points
MaxCoreSteps == 4

\* Sabine's constant 0.161, in thousandths
SabineMilli == 161

\* A mutant of absorption: the clamp to [0.02, 0.9] is left out.
MutAbsorptionNoClamp(rt60, V, S) ==
  IF rt60 <= 0 \/ S <= 0 THEN Rat(2, 10)
  ELSE Rat(SabineMilli * V, 100 * rt60 * S)

\* absorption(rt60, V, S) for rt60 in tenths of a second, V in cubic and S
\* in square metres: 0.161 * V / (rt60 * S) clamped to [0.02, 0.9], the
\* default 0.2 when rt60 <= 0 or S <= 0
absorption(rt60, V, S) ==
  IF rt60 <= 0 \/ S <= 0 THEN Rat(2, 10)
  ELSE LET alpha == Rat(SabineMilli * V, 100 * rt60 * S)
       IN  RMax(Rat(2, 100), RMin(Rat(9, 10), alpha))

\* "undefined" (null in the fingerprint), and a frequency in whole hertz
Undefined == [null |-> TRUE, hz |-> 0]

Hertz(f) == [null |-> FALSE, hz |-> f]

\* A mutant of schroederFrequency: a volume <= 0 is not guarded and the
\* frequency is reported as 0.
MutSchroederZero(rt60, V) ==
  IF rt60 <= 0 THEN Undefined
  ELSE IF V <= 0 THEN Hertz(0)
  ELSE LET x == (4000000 * rt60) \div (10 * V)
       IN  Hertz(Isqrt(x, x))

\* schroederFrequency(rt60, V) = 2000 * sqrt(rt60 / V) for rt60 in tenths of
\* a second and V in cubic metres, cut to whole hertz; undefined when
\* V <= 0 or rt60 <= 0
schroederFrequency(rt60, V) ==
  IF V <= 0 \/ rt60 <= 0 THEN Undefined
  ELSE LET x == (4000000 * rt60) \div (10 * V)
       IN  Hertz(Isqrt(x, x))

\* The whole part of log2(a / b) for a, b > 0
RECURSIVE Log2Whole(_, _)
Log2Whole(a, b) ==
  IF a >= 2 * b THEN 1 + Log2Whole(a, 2 * b)
  ELSE IF a < b THEN Log2Whole(2 * a, b) - 1
  ELSE 0

\* 2 ^ e times b when e >= 0 (b otherwise), and 2 ^ -e times a when e < 0
RECURSIVE Shifted(_, _)
Shifted(x, e) == IF e <= 0 THEN x ELSE Shifted(2 * x, e - 1)

\* The first k binary digits of log2(y / 8192) for 8192 <= y < 16384, by
\* repeated squaring; in units of 2 ^ -k
RECURSIVE Log2Digits(_, _)
Log2Digits(y, k) ==
  IF k = 0 THEN 0
  ELSE LET z == (y * y) \div 8192
       IN  IF z >= 16384 THEN Shifted(1, k - 1) + Log2Digits(z \div 2, k - 1)
           ELSE Log2Digits(z, k - 1)

\* log10(a / b) in thousandths for a, b > 0 (log10(2) = 0.30103)
Log10Milli(a, b) ==
  LET e == Log2Whole(a, b)
      y == (Shifted(a, -e) * 8192) \div Shifted(b, e)
      log2 == e * 1024 + Log2Digits(y, 10)
  IN  Trunc(log2 * 30103, 102400)

\* The tilt 0.18 per decade, its anchor 500 Hz and lower corner 125 Hz, and
\* the floor 0.2 s in milliseconds
TiltMilli == 180

TiltAnchorHz == 500

TiltCornerHz == 125

Rt60FloorMs == 200

\* A mutant of bandRt60: the floor of 0.2 s is left out.
MutBandNoFloor(rt60_base, f) ==
  LET fc == IF f > TiltCornerHz THEN f ELSE TiltCornerHz
  IN  rt60_base - Trunc(TiltMilli * Log10Milli(fc, TiltAnchorHz), 1000)

\* rt60(f) = max(0.2, rt60_base - 0.18 * log10(max(f, 125) / 500)), in
\* milliseconds
bandRt60(rt60_base, f) ==
  LET fc == IF f > TiltCornerHz THEN f ELSE TiltCornerHz
      tilted == rt60_base - Trunc(TiltMilli * Log10Milli(fc, TiltAnchorHz), 1000)
  IN  IF tilted > Rt60FloorMs THEN tilted ELSE Rt60FloorMs

\* rt60_s_by_band: the value of each requested band, in the order requested
rt60ByBand(rt60_base, bands) ==
  [i \in 1..Len(bands) |-> bandRt60(rt60_base, bands[i])]

\* The default bands of a request
DefaultBands == <<125, 250, 500, 1000, 2000, 4000>>

\* Lists of requested bands
BandLists ==
  {DefaultBands, <<500>>, <<1000, 500>>, <<63, 125, 500, 8000>>,
   <<31, 16000>>, <<>>}

\* Base reverberation times in milliseconds
BaseMsGrid ==
  {-1000, 0, 100, 199, 200, 201, 250, 300, 2500}
    \cup {1000 * k : k \in 1..MaxCoreSteps}

\* Reverberation times in tenths of a second
Rt60Grid == {-10, 0, 2, 15, 25} \cup {10 * k : k \in 1..MaxCoreSteps}

\* Volumes in cubic metres (319 is the King's Chamber, 1000 the default room)
VolumeGrid == {-8, 0, 1, 27, 319} \cup {250 * k : k \in 1..MaxCoreSteps}

\* Surface areas in square metres
SurfaceGrid == {-6, 0, 6, 54, 280} \cup {150 * k : k \in 1..MaxCoreSteps}

\* nearestBand(map, f): the index of the band whose center is nearest to f
\* (f in millihertz), the first one on a tie
nearestBand(bands, f) ==
  LET dist(i) == Abs(bands[i] * 1000 - f)
  IN  CHOOSE i \in 1..Len(bands) :
        /\ \A j \in 1..Len(bands) : dist(i) <= dist(j)
        /\ \A j \in 1..(i - 1) : dist(j) > dist(i)

\* The largest mode index of the analyzer
AnalyzerIndexMax == 11

\* pi / 13.8155, in millionths
InverseBandwidthMicro == 227396

\* 1 / (B(f) * max(f, 50)) with B(f) = 13.8155 / (pi * T(f)), in millionths,
\* for f in millihertz; T(f) is the RT60 of the band nearest to f
ModeEnergy(f, rt60_base, bands) ==
  LET T == bandRt60(rt60_base, bands[nearestBand(bands, f)])
      fc == IF f > 50000 THEN f ELSE 50000
  IN  (InverseBandwidthMicro * T) \div fc

\* The modes with f <= fmax among all index triples but (0, 0, 0), each
\* with its position in the enumeration, its frequency and its energy
KeptModes(dims, rt60_base, bands, fmax) ==
  LET I == 0..AnalyzerIndexMax
      width == AnalyzerIndexMax + 1
      freq(t) == ModeFreq(t[1], t[2], t[3], dims)
      kept == {t \in I \X I \X I : t # <<0, 0, 0>> /\ freq(t) <= fmax * 1000}
  IN  {[at |-> (t[1] * width + t[2]) * width + t[3],
        nx |-> t[1], ny |-> t[2], nz |-> t[3],
        frequency |-> freq(t),
        energy |-> ModeEnergy(freq(t), rt60_base, bands)] : t \in kept}

\* The sort key (frequency ascending, relative_energy descending); equal
\* keys keep the order of the enumeration
ModeBefore(a, b) ==
  \/ a.frequency < b.frequency
  \/ a.frequency = b.frequency /\ a.energy > b.energy
  \/ a.frequency = b.frequency /\ a.energy = b.energy /\ a.at < b.at

\* A mutant of SelectModes: the sort is left out, the modes stay in the
\* order of the enumeration.
MutSelectUnsorted(kept, top_n) ==
  LET rank(a) == Cardinality({b \in kept : b.at < a.at})
      n == IF Cardinality(kept) < top_n THEN Cardinality(kept) ELSE top_n
  IN  Array([i \in 1..n |-> CHOOSE a \in kept : rank(a) = i - 1])

\* The first top_n modes of the sorted list
SelectModes(kept, top_n) ==
  LET rank(a) == Cardinality({b \in kept : ModeBefore(b, a)})
      n == IF Cardinality(kept) < top_n THEN Cardinality(kept) ELSE top_n
  IN  Array([i \in 1..n |-> CHOOSE a \in kept : rank(a) = i - 1])

\* The sum of the energies of a list of modes or taps
RECURSIVE EnergySum(_, _)
EnergySum(xs, n) == IF n = 0 THEN 0 ELSE EnergySum(xs, n - 1) + xs[n].energy

\* A mutant of Renormalize: the energies are left as they were computed.
MutNoRenormalize(xs) == xs

\* The energies of the list renormalized to sum to 1.0 (a sum of zero is
\* treated as 1.0); relative_energy is in ten-thousandths
Renormalize(xs) ==
  LET sum == EnergySum(xs, Len(xs))
      total == IF sum = 0 THEN 1 ELSE sum
  IN  Array([i \in 1..Len(xs) |->
               [xs[i] EXCEPT !.energy = (xs[i].energy * 10000) \div total]])

\* modal_summary of a request
modalSummary(dims, rt60_base, bands, fmax, top_n) ==
  Renormalize(SelectModes(KeptModes(dims, rt60_base, bands, fmax), top_n))

\* A direct call of the modal analyzer
ProbeModes ==
  /\ probe.fn = "modes" /\ IsPending(probe.res)
  /\ probe' = [probe EXCEPT !.res =
                 Ok(modalSummary(probe.dims, probe.rt60, probe.bands,
                                 probe.fmax, probe.top_n))]
  /\ UNCHANGED <<rng, req, catalog>>

\* The six canonical path lengths 0, 2L, 2W, 2H, 2 * sqrt(L^2 + W^2) and
\* 2 * sqrt(L^2 + H^2) in decimetres, for positive dims in millimetres
PathLengths(dims) ==
  LET L == dims[1] \div 100
      W == dims[2] \div 100
      H == dims[3] \div 100
  IN  <<0, 2 * L, 2 * W, 2 * H,
        Isqrt(4 * (L * L + W * W), 2 * (L + W)),
        Isqrt(4 * (L * L + H * H), 2 * (L + H))>>

\* The energy of path i in units of 1e-5: 1.0 for the direct path,
\* (1 - alpha) ^ bounces / d^2 (d in metres, longer than epsilon) with one
\* bounce for the single-wall paths and two for the diagonal ones; alpha in
\* thousandths
PathEnergy(i, d, alpha) ==
  IF i = 1 THEN 100000
  ELSE IF i <= 4 THEN ((1000 - alpha) * 10000) \div (d * d)
  ELSE ((1000 - alpha) * (1000 - alpha) * 10) \div (d * d)

\* The six taps before the normalization: t_ms = 1000 * d / c (here in
\* microseconds) and the energy of the path
RawTaps(dims, alpha) ==
  LET d == PathLengths(dims)
  IN  Array([i \in 1..6 |->
               [time |-> (d[i] * 100000) \div SpeedOfSound,
                energy |-> PathEnergy(i, d[i], alpha)]])

\* A mutant of reflectionTaps: the energies are not normalized.
MutTapsRaw(dims, alpha, n) == SubSeq(RawTaps(dims, alpha), 1, n)

\* early_reflection_taps: all six taps are computed and normalized to sum
\* to 1.0, then the first n are returned
reflectionTaps(dims, alpha, n) ==
  SubSeq(Renormalize(RawTaps(dims, alpha)), 1, n)

\* A direct call of the reflection model
ProbeTaps ==
  /\ probe.fn = "taps" /\ IsPending(probe.res)
  /\ probe' = [probe EXCEPT !.res =
                 Ok(reflectionTaps(probe.dims, probe.alpha, probe.n))]
  /\ UNCHANGED <<rng, req, catalog>>

\* A direct call of absorption
ProbeAbsorption ==
  /\ probe.fn = "absorption" /\ IsPending(probe.res)
  /\ probe' = [probe EXCEPT !.res = Ok(absorption(probe.rt60, probe.V, probe.S))]
  /\ UNCHANGED <<rng, req, catalog>>

\* A direct call of schroederFrequency
ProbeSchroeder ==
  /\ probe.fn = "schroeder" /\ IsPending(probe.res)
  /\ probe' = [probe EXCEPT !.res = Ok(schroederFrequency(probe.rt60, probe.V))]
  /\ UNCHANGED <<rng, req, catalog>>

\* A direct call of the band model
ProbeBands ==
  /\ probe.fn = "bands" /\ IsPending(probe.res)
  /\ probe' = [probe EXCEPT !.res = Ok(rt60ByBand(probe.rt60, probe.bands))]
  /\ UNCHANGED <<rng, req, catalog>>

\* The arguments of a direct call of a function of the core
CoreProbes ==
  {[fn |-> "absorption", rt60 |-> rt60, V |-> V, S |-> S, res |-> Pending] :
     rt60 \in Rt60Grid, V \in VolumeGrid, S \in SurfaceGrid}
  \cup
  {[fn |-> "schroeder", rt60 |-> rt60, V |-> V, res |-> Pending] :
     rt60 \in Rt60Grid, V \in VolumeGrid}
  \cup
  {[fn |-> "bands", rt60 |-> rt60, bands |-> bands, res |-> Pending] :
     rt60 \in BaseMsGrid, bands \in BandLists}
  \cup
  {[fn |-> "modes", dims |-> dims, rt60 |-> rt60, bands |-> bands,
    fmax |-> fmax, top_n |-> top_n, res |-> Pending] :
     dims \in {KingsChamber, DefaultDims}, rt60 \in {0, 2500},
     bands \in {DefaultBands, <<500>>}, fmax \in {10, 20, 45},
     top_n \in {1, 5, 24}}
  \cup
  {[fn |-> "modes", dims |-> KingsChamber, rt60 |-> 2500, bands |-> DefaultBands,
    fmax |-> 2000, top_n |-> 24, res |-> Pending]}
  \cup
  {[fn |-> "taps", dims |-> dims, alpha |-> alpha, n |-> n, res |-> Pending] :
     dims \in {KingsChamber, DefaultDims, KonarkSunTemple},
     alpha \in {20, 73, 200, 900}, n \in 1..6}

InitCore ==
  /\ rng = 0
  /\ req = [r \in Slots |-> Idle]
  /\ SACRED_SITES = SitesAtImport
  /\ COUNTRIES = CountriesAtImport
  /\ probe \in CoreProbes

NextCore ==
  ProbeAbsorption \/ ProbeSchroeder \/ ProbeBands \/ ProbeModes \/ ProbeTaps

SpecCore == InitCore /\ [][NextCore]_vars

\* ========================================================================
\* Claims

AllPositive(dims) == \A i \in 1..3 : dims[i] > 0

Largest(dims) ==
  CHOOSE x \in {dims[i] : i \in 1..3} : \A i \in 1..3 : dims[i] <= x

\* The call of thread r has returned a buffer
Returned(r) == req[r].pc = "done" /\ req[r].res.ok

\* The same call: the function and all of its arguments
SameCall(a, b) ==
  /\ a.kind = b.kind /\ a.fs = b.fs /\ a.rt60 = b.rt60 /\ a.len = b.len
  /\ a.dims = b.dims /\ a.pulse = b.pulse

Peak(x) == MaxAbs(x, Len(x))

\* A peak of 1.0 within five thousandths
IsUnitPeak(p) == p.k = "fin" /\ Abs(p.v - 1000) <= 5

AllFinite(x) == \A i \in 1..Len(x) : IsFin(x[i])

\* Column c of a stereo buffer
Channel(rows, c) == [i \in 1..Len(rows) |-> rows[i][c]]

\* All samples of the buffer a call returned
Samples(q) ==
  IF q.kind = "ir" THEN q.res.val
  ELSE Channel(q.res.val, 1) \o Channel(q.res.val, 2)

\* len is fs * length_sec with the fraction cut off
IsTruncation(len, fs, length_ms) ==
  len * 1000 <= fs * length_ms /\ fs * length_ms < (len + 1) * 1000

\* len is an integer nearest to fs * length_sec
IsRounding(len, fs, length_ms) == Abs(2 * fs * length_ms - 2000 * len) <= 1000

\* C1: the buffer generate_synthetic_ir returns is peak-normalized, its
\* largest absolute sample is 1.0 (stated here for rooms with positive
\* dims and rt60 and buffers of finite samples only).  The code divides by
\* max * 0.7, so the peak of such a buffer is 1 / 0.7 = 1.43.
C1_IrPeakIsOne ==
  \A r \in Slots :
    (Returned(r) /\ req[r].kind = "ir" /\ AllPositive(req[r].dims)
       /\ req[r].rt60 > 0 /\ AllFinite(req[r].res.val)) =>
      IsUnitPeak(Peak(req[r].res.val))

\* C2: each of the two channels generate_binaural_isochronic_tone returns is
\* peak-normalized, max|left| = 1.0 and max|right| = 1.0, for every room and
\* pulse setting.  A room with rt60 = 0 gets two channels of NaN.
C2_ChannelPeaksAreOne ==
  \A r \in Slots :
    (Returned(r) /\ req[r].kind = "tone") =>
      /\ IsUnitPeak(Peak(Channel(req[r].res.val, 1)))
      /\ IsUnitPeak(Peak(Channel(req[r].res.val, 2)))

\* C3 as stated: the IR buffer has round(fs * length_sec) samples and the
\* tone buffer as many rows.  The code cuts the fraction off instead.
C3_LengthIsRounded ==
  \A r \in Slots :
    Returned(r) => IsRounding(Len(req[r].res.val), req[r].fs, req[r].len)

\* C3: whenever a synthesis call returns a buffer, the IR buffer has exactly
\* int(fs * length_sec) samples, the product with its fraction cut off, and
\* the tone buffer has that same number of rows, each a (left, right) pair.
C3_LengthIsTruncated ==
  \A r \in Slots :
    Returned(r) =>
      LET q == req[r]
      IN  /\ IsTruncation(Len(q.ir.val), q.fs, q.len)
          /\ Len(q.res.val) = Len(q.ir.val)
          /\ q.kind = "tone" => \A i \in 1..Len(q.res.val) : Len(q.res.val[i]) = 2

\* C3 witness: a tone call with fs * length_sec = 17.5 returned 17 rows,
\* built on an IR of 17 samples.
C3_Witness ==
  \E r \in Slots :
    /\ Returned(r) /\ req[r].kind = "tone"
    /\ req[r].fs * req[r].len = 17500
    /\ Len(req[r].res.val) = 17 /\ Len(req[r].ir.val) = 17

\* C4: two calls of a synthesis function with identical inputs return
\* identical buffers (the random source being an explicit seeded generator
\* handed to the call).  The code has no such argument; both calls draw from
\* np.random wherever the process-wide stream stands.
C4_SameInputsSameBuffer ==
  \A r1, r2 \in Slots :
    (Returned(r1) /\ Returned(r2) /\ SameCall(req[r1], req[r2])) =>
      req[r1].res = req[r2].res

\* C5: a request draws its random values from a request-local source: the
\* values it consumes follow one another in its stream under every
\* interleaving with another request.  In the code each draw of a request
\* starts where the shared generator stands, not where its own previous draw
\* ended.
C5_DrawsAreRequestLocal ==
  \A r \in Slots :
    \A i \in 1..(Len(req[r].drawn) - 1) :
      req[r].drawn[i + 1][1] =
        (req[r].drawn[i][1] + req[r].drawn[i][2]) % RngPeriod

\* C6: when the IR after the inverse transform has maximum amplitude 0, the
\* normalization is skipped or divides by 1.0, and the returned buffer has
\* no NaN or Inf sample.  The code divides 0 by 0.
C6_ZeroPeakStaysFinite ==
  \A r \in Slots :
    LET q == req[r]
        n == NumSamples(q.fs, q.len)
    IN  (Returned(r) /\ q.kind = "ir" /\ Peak(Irfft(q.spec, n)) = Fin(0)) =>
          AllFinite(q.res.val)

\* C7: a call with a zero or negative dimension completes normally, on the
\* default geometry (10, 10, 10).  The code raises ZeroDivisionError for a
\* zero dimension.
C7_BadDimsNeverRaise ==
  \A r \in Slots :
    (req[r].pc = "done" /\ ~AllPositive(req[r].dims)) => req[r].res.ok

\* C8: for rt60 <= 0 the synthesis returns a buffer with no NaN or Inf
\* sample.  The code computes beta = ln(1000) / 0 = inf and returns NaN.
C8_BadRt60StaysFinite ==
  \A r \in Slots :
    (Returned(r) /\ req[r].rt60 <= 0) => AllFinite(Samples(req[r]))

\* C9: for all dims with positive entries, fundamental(dims) equals
\* ((343/2) / max(Lx, Ly, Lz)) * phi clamped into [20, 100]: it is 20 when the
\* raw value is below 20, 100 when it is above 100 and the raw value
\* otherwise; so it lies in [20, 100] and is a function of the largest
\* dimension alone.  (raw = 343 * 1.618 / (2 * largest), largest in metres.)
C9_FundamentalClamped ==
  (probe.fn = "fundamental" /\ ~IsPending(probe.res) /\ AllPositive(probe.dims)) =>
    LET rawN == SpeedOfSound * PhiMilli
        rawD == 2 * Largest(probe.dims)
        r == probe.res.val
    IN  /\ probe.res.ok
        /\ r = (IF rawN < 20 * rawD THEN RInt(20)
                ELSE IF rawN > 100 * rawD THEN RInt(100)
                ELSE Rat(rawN, rawD))
        /\ RLeq(RInt(20), r) /\ RLeq(r, RInt(100))

\* C9 witness: a call on positive dims returned an unclamped value, and the
\* largest dimension is not the first one.
C9_Witness ==
  /\ probe.fn = "fundamental" /\ probe.res.ok /\ AllPositive(probe.dims)
  /\ RLess(RInt(20), probe.res.val) /\ RLess(probe.res.val, RInt(100))
  /\ probe.dims[1] < probe.dims[3]

\* C10: for every base frequency, binauralDelta(base) is base / phi clamped
\* into [2, 8]: 2 when base / phi < 2, 8 when base / phi > 8, base / phi
\* otherwise; so it lies in [2, 8].
C10_DeltaClamped ==
  (probe.fn = "delta" /\ ~IsPending(probe.res)) =>
    LET b == probe.base
        r == probe.res.val
    IN  /\ r = (IF b.n * 1000 < 2 * PhiMilli * b.d THEN RInt(2)
                ELSE IF b.n * 1000 > 8 * PhiMilli * b.d THEN RInt(8)
                ELSE Rat(b.n * 1000, b.d * PhiMilli))
        /\ RLeq(RInt(2), r) /\ RLeq(r, RInt(8))

\* C10 witness: a call returned an unclamped offset.
C10_Witness ==
  /\ probe.fn = "delta" /\ probe.res.ok
  /\ RLess(RInt(2), probe.res.val) /\ RLess(probe.res.val, RInt(8))

\* The second largest of three lengths: at least two of them are >= it and
\* at least two are <= it (it equals the largest when the two largest agree)
SecondLargest(dims) ==
  CHOOSE x \in {dims[i] : i \in 1..3} :
    /\ Cardinality({i \in 1..3 : dims[i] >= x}) >= 2
    /\ Cardinality({i \in 1..3 : dims[i] <= x}) >= 2

\* The six orders of three dimensions
Permutations3(dims) ==
  {<<dims[p[1]], dims[p[2]], dims[p[3]]>> :
     p \in {q \in [1..3 -> 1..3] : {q[1], q[2], q[3]} = 1..3}}

\* C11: for all dims with positive entries, isochronicRate(dims) equals
\* (343/2) / (second largest dimension) clamped into [2, 10]: 2 when the raw
\* value is below 2, 10 when it is above 10, the raw value otherwise; and
\* the function returns the same value on every permutation of the dims.
C11_RateClamped ==
  (probe.fn = "rate" /\ ~IsPending(probe.res) /\ AllPositive(probe.dims)) =>
    LET rawN == SpeedOfSound * 1000
        rawD == 2 * SecondLargest(probe.dims)
        r == probe.res.val
    IN  /\ probe.res.ok
        /\ r = (IF rawN < 2 * rawD THEN RInt(2)
                ELSE IF rawN > 10 * rawD THEN RInt(10)
                ELSE Rat(rawN, rawD))
        /\ RLeq(RInt(2), r) /\ RLeq(r, RInt(10))
        /\ \A d \in Permutations3(probe.dims) :
             calculate_isochronic_rate(d) = probe.res

\* C11 witness: a call on three distinct positive dims returned an unclamped
\* rate, and the second largest dimension is the last one.
C11_Witness ==
  /\ probe.fn = "rate" /\ probe.res.ok /\ AllPositive(probe.dims)
  /\ RLess(RInt(2), probe.res.val) /\ RLess(probe.res.val, RInt(10))
  /\ probe.dims[1] < probe.dims[3] /\ probe.dims[3] < probe.dims[2]

\* C12: after any sequence of requests to /, /sites, /sites-by-country,
\* /generate-ir and /generate-tone, accepted or rejected, SACRED_SITES has the
\* keys, rt60 and dims it had at import and COUNTRIES is unchanged: no step
\* of an endpoint or of the synthesis writes through the dims list.
C12_CatalogUnchanged ==
  /\ DOMAIN SACRED_SITES = DOMAIN SitesAtImport
  /\ \A site \in DOMAIN SitesAtImport :
       /\ SACRED_SITES[site].rt60 = SitesAtImport[site].rt60
       /\ SACRED_SITES[site].dims = SitesAtImport[site].dims
  /\ COUNTRIES = CountriesAtImport

\* C12 witness: /generate-tone has been answered with 200 for a site whose
\* dims are not in descending order, and the request held the list of the
\* catalog
C12_Witness ==
  \E r \in Slots :
    /\ req[r].route = "/generate-tone" /\ req[r].status = 200
    /\ req[r].site \in DOMAIN SACRED_SITES
    /\ req[r].dims = SACRED_SITES[req[r].site].dims
    /\ req[r].dims # SortedDesc(req[r].dims)

\* C13: absorption(rt60, V, S) returns 0.161 * V / (rt60 * S) clamped into
\* [0.02, 0.9] when rt60 > 0 and S > 0, and returns 0.2 without raising when
\* rt60 <= 0 or S <= 0; so the coefficient lies in [0.02, 0.9] for every
\* input.
C13_AbsorptionClamped ==
  (probe.fn = "absorption" /\ ~IsPending(probe.res)) =>
    LET rawN == SabineMilli * probe.V
        rawD == 100 * probe.rt60 * probe.S
        a == probe.res.val
    IN  /\ probe.res.ok
        /\ a = (IF probe.rt60 <= 0 \/ probe.S <= 0 THEN Rat(1, 5)
                ELSE IF 50 * rawN < rawD THEN Rat(1, 50)
                ELSE IF 10 * rawN > 9 * rawD THEN Rat(9, 10)
                ELSE Rat(rawN, rawD))
        /\ RLeq(Rat(1, 50), a) /\ RLeq(a, Rat(9, 10))

\* C13 witness: a call with rt60 > 0 and S > 0 returned a value strictly
\* inside the clamp range
C13_Witness ==
  /\ probe.fn = "absorption" /\ probe.res.ok
  /\ probe.rt60 > 0 /\ probe.S > 0
  /\ RLess(Rat(1, 50), probe.res.val) /\ RLess(probe.res.val, Rat(9, 10))

\* C14: schroeder_freq_hz is null, and never 0, whenever rt60 <= 0 or
\* volume <= 0, and is 2000 * sqrt(rt60 / V) otherwise (here: the whole
\* hertz below it, h * h <= 4000000 * rt60 / V < (h + 1) * (h + 1)).
C14_SchroederNullOrRoot ==
  (probe.fn = "schroeder" /\ ~IsPending(probe.res)) =>
    LET f == probe.res.val
        x == 400000 * probe.rt60
    IN  IF probe.rt60 <= 0 \/ probe.V <= 0 THEN f.null
        ELSE /\ ~f.null /\ f.hz > 0
             /\ f.hz * f.hz * probe.V <= x
             /\ x < (f.hz + 1) * (f.hz + 1) * probe.V

\* C14 witness: the call for 1000 cubic metres at 2.5 s returned 100 Hz
C14_Witness ==
  /\ probe.fn = "schroeder" /\ probe.res.ok
  /\ probe.rt60 = 25 /\ probe.V = 1000 /\ probe.res.val = Hertz(100)

\* C19: for every base RT60 and every list of requested bands, each
\* per-band RT60 is at least 0.2 s, and the value of the 500 Hz band equals
\* rt60_base exactly whenever rt60_base >= 0.2.
C19_BandFloorAndAnchor ==
  (probe.fn = "bands" /\ ~IsPending(probe.res)) =>
    /\ probe.res.ok
    /\ Len(probe.res.val) = Len(probe.bands)
    /\ \A i \in 1..Len(probe.bands) :
         /\ probe.res.val[i] >= 200
         /\ (probe.bands[i] = 500 /\ probe.rt60 >= 200) =>
              probe.res.val[i] = probe.rt60

\* C19 witness: a request for the 500 Hz band and another one, at a base
\* of 0.2 s or more: the other band got a different value
C19_Witness ==
  /\ probe.fn = "bands" /\ probe.res.ok /\ probe.rt60 >= 200
  /\ \E i, j \in 1..Len(probe.bands) :
       /\ probe.bands[i] = 500 /\ probe.res.val[i] = probe.rt60
       /\ probe.res.val[j] > 200 /\ probe.res.val[j] # probe.rt60

\* The relative energies (ten-thousandths) sum to 1.0 within 0.0025, the
\* loss of at most 24 roundings
IsUnitSum(xs) == Abs(EnergySum(xs, Len(xs)) - 10000) <= 25

\* C15 as stated: for all mode selections, those that keep no mode
\* included, the relative_energy values of the returned modes sum to 1.0.
\* A selection with fmax below the lowest eigenfrequency returns no mode,
\* and the energies of no mode sum to 0.
C15_EnergiesSumToOne ==
  (probe.fn = "modes" /\ ~IsPending(probe.res)) => IsUnitSum(probe.res.val)

\* C15: for every mode selection that keeps at least one mode the
\* relative_energy values of the returned modes sum to 1.0; a selection that
\* keeps no mode returns an empty list.
C15_KeptEnergiesSumToOne ==
  (probe.fn = "modes" /\ ~IsPending(probe.res)) =>
    LET xs == probe.res.val
        below == \E l, m, n \in 0..11 :
                   /\ <<l, m, n>> # <<0, 0, 0>>
                   /\ ModeFreq(l, m, n, probe.dims) <= probe.fmax * 1000
    IN  /\ probe.res.ok
        /\ (Len(xs) > 0) <=> below
        /\ Len(xs) > 0 => IsUnitSum(xs)

\* C15 witness: a selection cut to top_n = 24 modes of unequal energies
C15_Witness ==
  /\ probe.fn = "modes" /\ probe.res.ok
  /\ probe.top_n = 24 /\ Len(probe.res.val) = 24
  /\ probe.res.val[1].energy # probe.res.val[24].energy

\* C16 as stated: the returned modal list is sorted strictly by ascending
\* frequency_hz, each frequency greater than its predecessor's, and no mode
\* is above fmax_hz.  Distinct index triples of one eigenfrequency (the
\* three axial modes of a cube) are all returned.
C16_StrictlyAscending ==
  (probe.fn = "modes" /\ ~IsPending(probe.res)) =>
    LET xs == probe.res.val
    IN  /\ \A i \in 1..(Len(xs) - 1) : xs[i].frequency < xs[i + 1].frequency
        /\ \A i \in 1..Len(xs) : xs[i].frequency <= probe.fmax * 1000

\* C16: the returned modal list is sorted by ascending frequency_hz, no
\* frequency is below its predecessor's, the index triples are distinct, and
\* no returned mode is above fmax_hz.
C16_Ascending ==
  (probe.fn = "modes" /\ ~IsPending(probe.res)) =>
    LET xs == probe.res.val
    IN  /\ probe.res.ok
        /\ \A i \in 1..(Len(xs) - 1) : xs[i].frequency <= xs[i + 1].frequency
        /\ \A i, j \in 1..Len(xs) : i # j => xs[i].at # xs[j].at
        /\ \A i \in 1..Len(xs) : xs[i].frequency <= probe.fmax * 1000

\* C16 witness: a list with two modes of one frequency and a third of a
\* higher one
C16_Witness ==
  /\ probe.fn = "modes" /\ probe.res.ok
  /\ \E i \in 1..(Len(probe.res.val) - 2) :
       /\ probe.res.val[i].frequency = probe.res.val[i + 1].frequency
       /\ probe.res.val[i + 1].frequency < probe.res.val[i + 2].frequency

\* C17 as stated: for the full six taps and for every truncation to n < 6
\* taps, the relative energies of the returned taps sum to 1.0, and the
\* first tap is the direct path with time_ms = 0.  The six energies are
\* normalized before the truncation, so fewer taps sum to less.
C17_TapsSumToOne ==
  (probe.fn = "taps" /\ ~IsPending(probe.res)) =>
    /\ IsUnitSum(probe.res.val)
    /\ probe.res.val[1].time = 0

\* C17: the relative energies of the full six taps sum to 1.0; a truncation
\* to n < 6 taps returns n taps whose energies sum to at most 1.0; the
\* first tap is the direct path with time_ms = 0, every other tap is later.
C17_SixTapsSumToOne ==
  (probe.fn = "taps" /\ ~IsPending(probe.res)) =>
    LET taps == probe.res.val
    IN  /\ probe.res.ok
        /\ Len(taps) = probe.n
        /\ taps[1].time = 0
        /\ \A i \in 2..Len(taps) : taps[i].time > 0
        /\ probe.n = 6 => IsUnitSum(taps)
        /\ EnergySum(taps, Len(taps)) <= 10000

\* C17 witness: six taps were returned, the direct path first, and the
\* reflections carry more than a hundredth of the energy
C17_Witness ==
  /\ probe.fn = "taps" /\ probe.res.ok /\ probe.n = 6
  /\ probe.res.val[1].time = 0
  /\ probe.res.val[1].energy < 9900

\* The n smallest eigenfrequencies (with multiplicity, ascending) over all
\* index triples in [0, 11]^3 other than (0, 0, 0), for positive dims.  The
\* axial modes (1,0,0) .. (6,0,0) are six triples at or below the cap, so
\* for n <= 6 no triple above the cap is among the n smallest.
LowestEigenfrequencies(dims, n) ==
  LET I == 0..AnalyzerIndexMax
      freq(t) == ModeFreq(t[1], t[2], t[3], dims)
      cap == ModeFreq(6, 0, 0, dims)
      low == {t \in I \X I \X I : t # <<0, 0, 0>> /\ freq(t) <= cap}
      before(a, b) ==
        \/ freq(a) < freq(b)
        \/ freq(a) = freq(b) /\ (a[1] * 12 + a[2]) * 12 + a[3] < (b[1] * 12 + b[2]) * 12 + b[3]
      rank(a) == Cardinality({b \in low : before(b, a)})
  IN  [i \in 1..n |-> freq(CHOOSE a \in low : rank(a) = i - 1)]

\* C20: the modal frequencies whose bins the IR synthesis multiplies by phi
\* are the six smallest eigenfrequencies of the room over all index triples
\* in [0, 11]^3 other than (0, 0, 0).  The code enumerates range(3), the
\* indices 0..2 only, and misses (3, 0, 0) in a long room.
C20_EmphasizedAreLowestOfCube ==
  \A r \in Slots :
    (Len(req[r].modes) > 0 /\ AllPositive(req[r].dims)) =>
      req[r].modes = LowestEigenfrequencies(req[r].dims, Len(req[r].modes))

\* C21: the early-reflection train has its impulses at the six
\* ReflectionModel arrival times scaled or clamped into the window [0, N).
\* The first of those is the direct path, which arrives at time 0 and so
\* falls on index 0 under every scaling; every amplitude lies in [0.3, 0.9]
\* and the train has N samples, none written at an index >= N.  The code
\* spaces its six times evenly from 0.005 s on, so index int(0.005 * fs)
\* is the first it writes.
C21_ImpulsesAtArrivalTimes ==
  \A r \in Slots :
    (req[r].pc = "ir_convolve" /\ AllPositive(req[r].dims)
       /\ Len(req[r].er) > 0) =>
      /\ req[r].er[1] # Fin(0)
      /\ Len(req[r].er) = NumSamples(req[r].fs, req[r].len)
      /\ \A i \in 1..Len(req[r].er) :
           req[r].er[i] # Fin(0) =>
             IsFin(req[r].er[i]) /\ req[r].er[i].v >= 300 /\ req[r].er[i].v <= 900

\* The bin (from 0) of rfftfreq(n, 1 / fs) nearest to f millihertz, the
\* first one on a tie
BinNearest(f, fs, n) ==
  LET dist(b) == Abs(b * fs * 1000 - f * n)
  IN  CHOOSE b \in 0..(n \div 2) :
        /\ \A k \in 0..(n \div 2) : dist(b) <= dist(k)
        /\ \A k \in 0..(b - 1) : dist(k) > dist(b)

\* The complex value c times the real factor g (thousandths)
Scaled(c, g) == [re |-> FMul(c.re, Fin(g)), im |-> FMul(c.im, Fin(g))]

\* Thread r executes one iteration of the loop over the emphasized modes
BoostStep(r) == req[r].pc = "ir_boost" /\ req'[r].m = req[r].m + 1

\* A harmonic frequency (millihertz) is below fs / 2
InNyquist(h, fs) == 2 * h < fs * 1000

\* C22: for each emphasized mode, the bins nearest mode * phi and
\* mode * phi^2 are boosted only when that harmonic is below fs / 2, by a
\* factor between 1.2 and 1.3 that is smaller than phi; a harmonic at or
\* above fs / 2 changes no bin.  Stated for one iteration of the loop: a
\* bin that is nearest to neither the mode nor a harmonic below fs / 2 keeps
\* its value, and a bin that is nearest to exactly one harmonic below
\* fs / 2 and not to the mode is multiplied by 1.3.
C22_HarmonicsWithinNyquist ==
  [][\A r \in Slots :
       BoostStep(r) =>
         LET q == req[r]
             n == NumSamples(q.fs, q.len)
             mode == q.modes[q.m]
             h1 == MulMilli(mode, PhiMilli)
             h2 == MulMilli(mode, (PhiMilli * PhiMilli) \div 1000)
             mb == BinNearest(mode, q.fs, n)
             at(h, b) == InNyquist(h, q.fs) /\ b = BinNearest(h, q.fs, n)
             after == req'[r].spec
         IN  /\ 1200 <= HarmonicBoostMilli /\ HarmonicBoostMilli <= 1300
             /\ HarmonicBoostMilli < PhiMilli
             /\ \A b \in 0..(n \div 2) :
                  /\ (b # mb /\ ~at(h1, b) /\ ~at(h2, b)) =>
                       after[b + 1] = q.spec[b + 1]
                  /\ (b # mb /\ (at(h1, b) # at(h2, b))) =>
                       after[b + 1] = Scaled(q.spec[b + 1], HarmonicBoostMilli)
    ]_vars

\* C22 witness: an iteration has run for a mode whose first harmonic is
\* below fs / 2, at another bin than the mode, and whose second harmonic is
\* at or above fs / 2; the bin of the first harmonic is not zero
C22_Witness ==
  \E r \in Slots :
    /\ req[r].pc \in {"ir_boost", "ir_irfft"} /\ req[r].m > 1
    /\ LET q == req[r]
           n == NumSamples(q.fs, q.len)
           mode == q.modes[q.m - 1]
           h1 == MulMilli(mode, PhiMilli)
           h2 == MulMilli(mode, (PhiMilli * PhiMilli) \div 1000)
           b == BinNearest(h1, q.fs, n)
       IN  /\ InNyquist(h1, q.fs) /\ ~InNyquist(h2, q.fs)
           /\ b # BinNearest(mode, q.fs, n)
           /\ q.spec[b + 1] # [re |-> Fin(0), im |-> Fin(0)]
           /\ AllFinite(<<q.spec[b + 1].re, q.spec[b + 1].im>>)

\* ------------------------------------------------------------------------
\* The cutoff of the air filter

\* The largest dim of any site of the catalog, for a catalog with sites
LargestOfCatalog ==
  CHOOSE x \in {Largest(SACRED_SITES[s].dims) : s \in DOMAIN SACRED_SITES} :
    \A s \in DOMAIN SACRED_SITES : Largest(SACRED_SITES[s].dims) <= x

TonesMade(r) == req[r].kind = "tone" /\ req[r].pc = "tone_noise"

\* 0.15 * sin(2 pi f t) at the sample of time t_us, f a rational of hertz
ToneSample(f, t_us) ==
  Fin(MulMilli(ToneAmplitudeMilli, SineAt(ToMilli(f), t_us)))

\* 0.5 * (1 + sin(2 pi rate t)) at the sample of time t_us, in thousandths
PulseGain(rate, t_us) == MulMilli(500, 1000 + SineAt(ToMilli(rate), t_us))

\* C24: the left tone is at the fundamental and the right tone at the
\* fundamental plus the binaural offset; with pulse set, sample i of both
\* channels is the tone times the same gain 0.5 * (1 + sin(2 pi rate t_i)),
\* which lies in [0, 1]; with pulse unset both channels are the bare tones
C24_TonesAndSharedEnvelope ==
  \A r \in Slots :
    TonesMade(r) =>
      LET q == req[r]
          n == NumSamples(q.fs, q.len)
          t == Linspace(q.len, n)
      IN  /\ Len(q.left) = n /\ Len(q.right) = n
          /\ \A i \in 1..n :
               LET l == ToneSample(q.base, t[i])
                   rt == ToneSample(RAdd(q.base, q.delta), t[i])
                   g == PulseGain(q.rate, t[i])
               IN  IF q.pulse
                   THEN /\ g >= 0 /\ g <= 1000
                        /\ q.left[i] = FMul(l, Fin(g))
                        /\ q.right[i] = FMul(rt, Fin(g))
                   ELSE q.left[i] = l /\ q.right[i] = rt

\* A pulsed call whose channels differ from the bare tones and from each
\* other, with a gain strictly inside (0, 1)
C24_Witness ==
  \E r \in Slots :
    /\ TonesMade(r) /\ req[r].pulse
    /\ \E i \in 1..Len(req[r].left) :
         LET q == req[r]
             ti == Linspace(q.len, NumSamples(q.fs, q.len))[i]
             g == PulseGain(q.rate, ti)
         IN  /\ g > 0 /\ g < 1000
             /\ q.left[i] # ToneSample(q.base, ti)
             /\ q.left[i] # q.right[i]
             /\ q.left[i] # Fin(0)

\* ------------------------------------------------------------------------
\* Termination

\* Thread r is inside a call of a synthesis function
Synthesizing(r) == req[r].pc \notin {"idle", "done"}

\* C25: every call of generate_synthetic_ir and of
\* generate_binaural_isochronic_tone comes to its end, by a return or an
\* exception, whatever the other thread does meanwhile
C25_SynthesisTerminates ==
  \A r \in Slots : Synthesizing(r) ~> (req[r].pc = "done")

\* A tone call has returned its buffer, after all of its loops, while the
\* other thread is inside a call of its own
C25_Witness ==
  \E r \in Slots, o \in Slots :
    /\ r # o
    /\ req[r].kind = "tone" /\ req[r].pc = "done" /\ req[r].res.ok
    /\ req[r].k = ErTaps /\ req[r].m = Len(req[r].modes) + 1
    /\ Len(req[r].modes) = 6
    /\ Synthesizing(o)

\* ------------------------------------------------------------------------
\* Validation of the site

PostRoutes == {"/generate-ir", "/generate-tone"}

DefaultSite == "Great Pyramid King's Chamber"

Tuned(r) == req[r].kind = "tone" /\ req[r].base # RInt(0)

\* C27: in a tone call the fundamental the offset is computed from lies in
\* [20, 100], the offset is 8 Hz, never the lower bound 2, whatever the
\* dims, and the right tone is at the fundamental plus 8 Hz
C27_OffsetIsEight ==
  \A r \in Slots :
    Tuned(r) =>
      LET q == req[r]
          t == Linspace(q.len, NumSamples(q.fs, q.len))
      IN  /\ RLeq(RInt(20), q.base) /\ RLeq(q.base, RInt(100))
          /\ q.delta = RInt(8)
          /\ TonesMade(r) =>
                \A i \in 1..Len(q.right) :
                  q.right[i] =
                    IF q.pulse
                    THEN FMul(ToneSample(RAdd(q.base, RInt(8)), t[i]),
                              Fin(PulseGain(q.rate, t[i])))
                    ELSE ToneSample(RAdd(q.base, RInt(8)), t[i])

\* The tones of a room 100 m long, whose fundamental of 2.8 Hz is clamped to
\* 20 Hz, are made with an offset of 8 Hz
C27_Witness ==
  \E r \in Slots :
    /\ Tuned(r) /\ TonesMade(r)
    /\ Largest(req[r].dims) = 100000
    /\ req[r].base = RInt(20) /\ req[r].delta = RInt(8)
    /\ req[r].right # req[r].left

\* ------------------------------------------------------------------------
\* Accumulation of the spectral gains

\* The loop over the emphasized modes of the call of thread r has ended and
\* the spectrum is not yet transformed back; req[r].ir is still the signal
\* the spectrum was taken from
Boosted(r) == req[r].pc = "ir_irfft"

\* The emphasized modes whose nearest bin is b
ModeHits(b, modes, fs, n) ==
  {i \in 1..Len(modes) : BinNearest(modes[i], fs, n) = b}

\* The harmonics below fs / 2 whose nearest bin is b, as pairs of the
\* mode's position and the multiplier
HarmonicHits(b, modes, fs, n) ==
  {h \in (1..Len(modes)) \X {PhiMilli, (PhiMilli * PhiMilli) \div 1000} :
     LET f == MulMilli(modes[h[1]], h[2])
     IN  InNyquist(f, fs) /\ BinNearest(f, fs, n) = b}

RECURSIVE Gained(_, _, _)
\* c times g, k times over
Gained(c, g, k) == IF k = 0 THEN c ELSE Gained(Scaled(c, g), g, k - 1)

RECURSIVE GainsOf(_, _, _, _, _, _)
\* c times the gains of bin b for the modes from position i on, mode by
\* mode: phi for the mode, 1.3 for each of its harmonics below fs / 2
GainsOf(c, b, modes, i, fs, n) ==
  IF i > Len(modes) THEN c
  ELSE LET k == IF i \in ModeHits(b, modes, fs, n) THEN 1 ELSE 0
           h == Cardinality({x \in HarmonicHits(b, modes, fs, n) : x[1] = i})
           v == Gained(Gained(c, PhiMilli, k), HarmonicBoostMilli, h)
       IN  IF v = c THEN GainsOf(c, b, modes, i + 1, fs, n)
           ELSE GainsOf(v, b, modes, i + 1, fs, n)

\* C28: the gains accumulate per bin.  After the loop a bin that is the
\* nearest bin of k emphasized modes and of h harmonics below fs / 2 holds
\* its value of the transform multiplied k times by phi and h times by 1.3
\* (in the order of the modes; for h = 0 that is phi^k, for k = 0 it is 1.3^h
\* in any order), and a bin with k = 0 and h = 0 holds its value unchanged
C28_GainsAccumulatePerBin ==
  \A r \in Slots :
    (Boosted(r) /\ req[r].ir.ok) =>
      LET q == req[r]
          n == NumSamples(q.fs, q.len)
          before == Rfft(q.ir.val, n)
      IN  /\ Len(q.spec) = Len(before)
          /\ \A b \in 0..(n \div 2) :
               LET k == Cardinality(ModeHits(b, q.modes, q.fs, n))
                   h == Cardinality(HarmonicHits(b, q.modes, q.fs, n))
               IN  /\ q.spec[b + 1] =
                        GainsOf(before[b + 1], b, q.modes, 1, q.fs, n)
                   /\ h = 0 =>
                        q.spec[b + 1] = Gained(before[b + 1], PhiMilli, k)
                   /\ k = 0 =>
                        q.spec[b + 1] =
                          Gained(before[b + 1], HarmonicBoostMilli, h)

\* After the loop one bin is the nearest bin of several modes and of a
\* harmonic and holds more than phi times its value, and another bin is
\* nearest to none and holds a value other than zero
C28_Witness ==
  \E r \in Slots :
    /\ Boosted(r) /\ req[r].ir.ok
    /\ LET q == req[r]
           n == NumSamples(q.fs, q.len)
           before == Rfft(q.ir.val, n)
       IN  /\ \E b \in 0..(n \div 2) :
                /\ Cardinality(ModeHits(b, q.modes, q.fs, n)) >= 2
                /\ HarmonicHits(b, q.modes, q.fs, n) # {}
                /\ IsFin(before[b + 1].re) /\ before[b + 1].re.v # 0
                /\ q.spec[b + 1] # Scaled(before[b + 1], PhiMilli)
           /\ \E b \in 0..(n \div 2) :
                /\ ModeHits(b, q.modes, q.fs, n) = {}
                /\ HarmonicHits(b, q.modes, q.fs, n) = {}
                /\ IsFin(q.spec[b + 1].re) /\ q.spec[b + 1].re.v # 0

\* ------------------------------------------------------------------------
\* The two tables of the catalog

\* The places (country, position) at which COUNTRIES lists a site
ListedAt(site) ==
  {p \in UNION {{c} \X (1..Len(COUNTRIES[c])) : c \in DOMAIN COUNTRIES} :
     COUNTRIES[p[1]][p[2]] = site}

\* C29: every site listed under a country of COUNTRIES is a key of
\* SACRED_SITES, and every key of SACRED_SITES is listed under exactly one
\* country, once
C29_TablesConsistent ==
  /\ \A c \in DOMAIN COUNTRIES :
       \A i \in 1..Len(COUNTRIES[c]) : COUNTRIES[c][i] \in DOMAIN SACRED_SITES
  /\ \A site \in DOMAIN SACRED_SITES : Cardinality(ListedAt(site)) = 1

====
